---- MODULE Spec2Model ----
(***************************************************************************)
(* A model of python-debianbts (src/debianbts/debianbts.py): the batching  *)
(* loop of get_status, the ordering of Bugreport objects, the SOAP value   *)
(* codec (_encode_value / _decode_value), _parse_status, the envelope      *)
(* (_encode_soap_request / _decode_soap_response) and _soap_client_call    *)
(* with the operations of the Query API that call it, from one thread and  *)
(* from two, and _decode_value on the elements a server may send.          *)
(*                                                                         *)
(* Texts (Python str) are sequences of one-character strings, so that the  *)
(* conversions of the code (str(int), "%d" % n, typ.find(":"), int(str))   *)
(* are computed and not assumed.                                           *)
(***************************************************************************)
EXTENDS Integers, Sequences, FiniteSets, TLC

VARIABLES
    \* ---- get_status (one call, followed through its loop) ----
    pc,         \* "idle" | "loop" | "await" | "returned" | "raised"
    nrs,        \* the argument of get_status
    numbers,    \* local `numbers`
    i,          \* the loop variable of range(0, len(numbers), BATCH_SIZE)
    bugs,       \* local `bugs`
    calls,      \* the slices handed to _soap_client_call, in order
    responses,  \* what _soap_client_call produced for each of them, in order
    exc,        \* the exception get_status raised ("" when none)
    result,     \* the value get_status returned
    \* ---- Bugreport ordering ----
    a, b,       \* two Bugreport objects
    cmp,        \* the outcome of each comparison operator on (a, b)
    \* ---- value codec ----
    cpc,        \* "native" | "encoded" | "wire" | "decoded" | "failed"
    val,        \* a native Python value
    el,         \* the element _encode_value appended to its parent
    wire,       \* that element after ET.tostring / ET.fromstring
    out,        \* what _decode_value returned
    \* ---- _parse_status (one decoded status) ----
    ppc,        \* "decoded" | "parsed"
    bugEl,      \* the decoded status handed to _parse_status (bug_el)
    bugOut,     \* what _parse_status made of it
    \* ---- _soap_client_call and the Query API ----
    kwargs,     \* the module's _soap_client_kwargs
    th,         \* the calls under way: the local variables of each
    \* ---- _decode_value of an element the server sent ----
    dpc,        \* "received" | "decoded"
    recv,       \* the element received
    opt,        \* whether the interpreter runs with -O
    dec         \* what _decode_value returned for it

statusVars == <<pc, nrs, numbers, i, bugs, calls, responses, exc, result>>
orderVars  == <<a, b, cmp>>
codecVars  == <<cpc, val, el, wire, out>>
parseVars  == <<ppc, bugEl, bugOut>>
callVars   == <<kwargs, th>>
decodeVars == <<dpc, recv, opt, dec>>
vars == <<statusVars, orderVars, codecVars, parseVars, callVars, decodeVars>>

----------------------------------------------------------------------------
(* Small helpers *)

Min(x, y) == IF x <= y THEN x ELSE y

Range(s) == { s[k] : k \in 1..Len(s) }

RECURSIVE Flatten(_)
\* the concatenation of a sequence of sequences
Flatten(ss) == IF ss = <<>> THEN <<>> ELSE Head(ss) \o Flatten(Tail(ss))

CeilDiv(n, d) == (n + d - 1) \div d

----------------------------------------------------------------------------
(* Texts *)

Digits == <<"0", "1", "2", "3", "4", "5", "6", "7", "8", "9">>

RECURSIVE NatToStr(_)
\* str(n) for n >= 0: the decimal digits, most significant first
NatToStr(n) ==
    IF n < 10 THEN <<Digits[n + 1]>>
    ELSE NatToStr(n \div 10) \o <<Digits[(n % 10) + 1]>>

\* str(n) for an int n
IntToStr(n) == IF n < 0 THEN <<"-">> \o NatToStr(0 - n) ELSE NatToStr(n)

IsDigit(c) == \E d \in 1..10 : Digits[d] = c

DigitVal(c) == (CHOOSE d \in 1..10 : Digits[d] = c) - 1

RECURSIVE DigitsToNat(_)
DigitsToNat(s) ==
    IF s = <<>> THEN 0
    ELSE 10 * DigitsToNat(SubSeq(s, 1, Len(s) - 1)) + DigitVal(s[Len(s)])

\* int(s) for a text s: [ok |-> FALSE] stands for ValueError
\* (surrounding whitespace, "+" and "_" are not drawn by the model)
ParseInt(s) ==
    LET neg == s # <<>> /\ s[1] = "-"
        ds  == IF neg THEN Tail(s) ELSE s
    IN  IF ds # <<>> /\ \A k \in 1..Len(ds) : IsDigit(ds[k])
        THEN [ok |-> TRUE, n |-> IF neg THEN 0 - DigitsToNat(ds) ELSE DigitsToNat(ds)]
        ELSE [ok |-> FALSE, n |-> 0]

\* s.find(c): the index (from 0) of the first c in s, -1 if there is none
Find(s, c) ==
    IF \E k \in 1..Len(s) : s[k] = c
    THEN (CHOOSE k \in 1..Len(s) : s[k] = c /\ \A l \in 1..(k - 1) : s[l] # c) - 1
    ELSE -1

\* s[idx:] for idx >= 0
From(s, idx) == SubSeq(s, idx + 1, Len(s))

RECURSIVE Split(_, _)
\* s.split(sep) for a one-character sep: the texts between the separators
Split(s, sep) ==
    IF Find(s, sep) < 0 THEN <<s>>
    ELSE <<SubSeq(s, 1, Find(s, sep))>> \o Split(From(s, Find(s, sep) + 1), sep)

\* the characters drawn that str.strip() takes for whitespace
Whitespace == {" ", "\t", "\n", "\r", "\f"}

RECURSIVE LStrip(_)
\* s.lstrip()
LStrip(s) == IF s # <<>> /\ Head(s) \in Whitespace THEN LStrip(Tail(s)) ELSE s

RECURSIVE RStrip(_)
\* s.rstrip()
RStrip(s) ==
    IF s # <<>> /\ s[Len(s)] \in Whitespace THEN RStrip(SubSeq(s, 1, Len(s) - 1)) ELSE s

\* a trim of the leading whitespace only
StripLeading(s) == LStrip(s)

\* s.strip()
Strip(s) == RStrip(LStrip(s))

----------------------------------------------------------------------------
(* Bugreport *)

\* a table with the ranks of serious and important exchanged
SEVERITIESSwapped ==
    [s \in {"critical", "grave", "serious", "important", "normal", "minor", "wishlist"} |->
        CASE s = "critical"  -> 7
          [] s = "grave"     -> 6
          [] s = "serious"   -> 4
          [] s = "important" -> 5
          [] s = "normal"    -> 3
          [] s = "minor"     -> 2
          [] s = "wishlist"  -> 1]

\* SEVERITIES: the rank of each known severity
SEVERITIES ==
    [s \in {"critical", "grave", "serious", "important", "normal", "minor", "wishlist"} |->
        CASE s = "critical"  -> 7
          [] s = "grave"     -> 6
          [] s = "serious"   -> 5
          [] s = "important" -> 4
          [] s = "normal"    -> 3
          [] s = "minor"     -> 2
          [] s = "wishlist"  -> 1]

NoText == [some |-> FALSE, v |-> <<>>]
SomeText(t) == [some |-> TRUE, v |-> t]

\* Bugreport(): __init__ only annotates the attributes, it assigns none of
\* them.  `has` is the set of attributes the object carries (its __dict__);
\* the other fields hold an attribute's value once it is in `has`.
Bugreport ==
    [has |-> {}, severity |-> "", done |-> FALSE, done_by |-> NoText,
     archived |-> FALSE, unarchived |-> FALSE, bug_num |-> 0, affects |-> <<>>]

\* setattr(bug, field, value)
SetAttr(bug, field, value) ==
    [bug EXCEPT !.has = @ \cup {field}, ![field] = value]

----------------------------------------------------------------------------
(* _parse_status *)

\* a done_by that is set whatever done is
DoneByAlways(done, raw) == SomeText(raw)

\* bug_el["done"] if bug.done else None
DoneBy(done, raw) == IF done THEN SomeText(raw) ELSE NoText

\* a parser that takes every text of zeros for false
_parse_boolZeros(x) == \E k \in 1..Len(x) : x[k] # "0"

\* _parse_bool(x): Perl's rules
_parse_bool(x) == x \notin {<<>>, <<"0">>}

\* The keys _parse_status reads from bug_el, in the order it reads them.
\* A decoded status (bug_el) is modelled by the set of keys it has and the
\* values of the keys whose processing the model follows.
PlainFields ==
    <<"originator", "subject", "msgid", "package", "severity", "owner",
      "summary", "location", "source", "pending", "forwarded",
      "found_versions", "fixed_versions">>
KeysBeforeBugNum ==
    Range(PlainFields) \cup
    {"date", "log_modified", "tags", "done", "archived", "unarchived"}
KeysAfterBugNum == {"mergedwith", "blockedby", "blocks", "affects"}
StatusKeys == KeysBeforeBugNum \cup {"bug_num"} \cup KeysAfterBugNum

\* _parse_status(bug_el): [exc |-> "" , bug |-> the Bugreport] or the
\* exception the first failing statement raises
_parse_status(bug_el) ==
    LET num  == ParseInt(bug_el.bug_num)
        done == _parse_bool(bug_el.done)
        b0   == Bugreport
        b1   == SetAttr(b0, "severity", bug_el.severity)
        b2   == SetAttr(b1, "done", done)
        b3   == SetAttr(b2, "done_by", DoneBy(done, bug_el.done))
        b4   == SetAttr(b3, "archived", _parse_bool(bug_el.archived))
        b5   == SetAttr(b4, "unarchived", _parse_bool(bug_el.unarchived))
        b6   == SetAttr(b5, "bug_num", num.n)
        \* affects = [_f for _f in str(bug_el["affects"]).split(",") if _f]
        affects == SelectSeq(Split(bug_el.affects, ","), LAMBDA f : f # <<>>)
        \* bug.affects = [a.strip() for a in affects]
        b7   == SetAttr(b6, "affects", [j \in 1..Len(affects) |-> Strip(affects[j])])
    IN  IF ~ (KeysBeforeBugNum \cup {"bug_num"} \subseteq bug_el.keys)
        THEN [exc |-> "KeyError", bug |-> Bugreport]
        ELSE IF ~ num.ok
        THEN [exc |-> "ValueError", bug |-> Bugreport]
        ELSE IF ~ (KeysAfterBugNum \subseteq bug_el.keys)
        THEN [exc |-> "KeyError", bug |-> Bugreport]
        ELSE [exc |-> "", bug |-> b7]

----------------------------------------------------------------------------
(* get_status *)

\* Max number of bugs to send in a single get_status request
BATCH_SIZE == 500

\* ---- the inputs the model draws ----
NumIds == 2
MaxSmallLen == 2
MaxResp == 2
Ids == 1..NumIds

\* the input lengths around the batch boundaries
LargeLens ==
    {BATCH_SIZE - 1, BATCH_SIZE, BATCH_SIZE + 1, BATCH_SIZE + 10, 2 * BATCH_SIZE + 1}

\* a list of n ids: all the same, cycling through Ids, or changing with the batch
ConstList(n) == [k \in 1..n |-> 1]
CycleList(n) == [k \in 1..n |-> ((k - 1) % NumIds) + 1]
BlockList(n) == [k \in 1..n |-> (((k - 1) \div BATCH_SIZE) % NumIds) + 1]

SmallLists == UNION { [1..n -> Ids] : n \in 0..MaxSmallLen }
LargeLists == UNION { {ConstList(n), CycleList(n), BlockList(n)} : n \in LargeLens }

IntArg(n)  == [isList |-> FALSE, n |-> n, seq |-> <<>>]
ListArg(s) == [isList |-> TRUE, n |-> 0, seq |-> s]
Inputs == { IntArg(n) : n \in Ids } \cup { ListArg(s) : s \in SmallLists \cup LargeLists }

\* ---- what the server may answer ----
\* A decoded status of bug `id` as the server sends it: an outstanding bug,
\* a resolved and archived one, one that lacks the severity key, and one
\* whose severity is none of the SEVERITIES.
OpenStatus(id) ==
    [keys |-> StatusKeys, severity |-> "normal", done |-> <<>>,
     archived |-> <<"0">>, unarchived |-> <<>>, bug_num |-> IntToStr(id),
     affects |-> <<>>]
DoneStatus(id) ==
    [keys |-> StatusKeys, severity |-> "grave", done |-> <<"A", "l">>,
     archived |-> <<"1">>, unarchived |-> <<"0">>, bug_num |-> IntToStr(id),
     affects |-> <<"a", ",", " ", "b">>]
BadStatus(id) ==
    [keys |-> StatusKeys \ {"severity"}, severity |-> "", done |-> <<>>,
     archived |-> <<>>, unarchived |-> <<>>, bug_num |-> IntToStr(id),
     affects |-> <<>>]
UnknownSeverityStatus(id) ==
    [keys |-> StatusKeys, severity |-> "fatal", done |-> <<>>,
     archived |-> <<>>, unarchived |-> <<>>, bug_num |-> IntToStr(id),
     affects |-> <<>>]
Statuses(id) == {OpenStatus(id), DoneStatus(id), BadStatus(id), UnknownSeverityStatus(id)}

\* The dict _soap_client_call returns for a get_status request: keyed by
\* bug number, in the order of the response, holding statuses of some of
\* the requested bugs (a dict has no key twice).
ResultDicts(slice) ==
    { d \in UNION { [1..n -> [key : Range(slice), status : UNION {Statuses(id) : id \in Range(slice)}]]
                    : n \in 0..MaxResp } :
        /\ \A k \in 1..Len(d) : d[k].status \in Statuses(d[k].key)
        /\ \A k, l \in 1..Len(d) : d[k].key = d[l].key => k = l }

\* What a _soap_client_call can end in: a decoded dict, None (a body without
\* return value), or an exception: urllib.error.URLError (transport),
\* RuntimeError (SOAP fault), ValueError (a value the codec cannot decode).
CallErrors == {"URLError", "RuntimeError", "ValueError"}
Outcomes(slice) ==
    { [kind |-> "dict", exc |-> "", dict |-> d] : d \in ResultDicts(slice) }
    \cup { [kind |-> "none", exc |-> "", dict |-> <<>>] }
    \cup { [kind |-> "raise", exc |-> e, dict |-> <<>>] : e \in CallErrors }

\* ---- the code ----
NoResult == [some |-> FALSE, v |-> <<>>]
Returned(v) == [some |-> TRUE, v |-> v]

\* numbers = [nrs] if nrs is neither list nor tuple, else list(nrs)
NumbersOf(arg) == IF ~ arg.isList THEN <<arg.n>> ELSE arg.seq

\* a slice that stops one element early
SliceShort(nums, idx) == SubSeq(nums, idx + 1, Min(idx + BATCH_SIZE - 1, Len(nums)))

\* slice_ = numbers[i : i + BATCH_SIZE]
Slice(nums, idx) == SubSeq(nums, idx + 1, Min(idx + BATCH_SIZE, Len(nums)))

\* a range whose step is one too long
NextIndexLong(idx) == idx + BATCH_SIZE + 1

\* the next value of range(0, len(numbers), BATCH_SIZE) after idx
NextIndex(idx) == idx + BATCH_SIZE

\* a loop that is entered once more at the end of the list
InRangeInclusive(nums, idx) == idx <= Len(nums)

\* range(0, len(numbers), BATCH_SIZE) has a value left at idx
InRange(nums, idx) == idx < Len(nums)

RECURSIVE ParseValues(_)
\* for bug in result_dict.values(): bugs.append(_parse_status(bug)):
\* the records appended, and the exception that ended the loop ("" if none)
ParseValues(d) ==
    IF d = <<>> THEN [exc |-> "", bugs |-> <<>>]
    ELSE LET p == _parse_status(Head(d).status) IN
         IF p.exc # "" THEN [exc |-> p.exc, bugs |-> <<>>]
         ELSE LET rest == ParseValues(Tail(d)) IN
              [exc |-> rest.exc, bugs |-> <<p.bug>> \o rest.bugs]

\* a loop that starts the list anew with every batch
ExtendOverwrites(bs, parsed) == parsed

\* bugs after the inner loop over one result_dict
Extend(bs, parsed) == bs \o parsed

\* get_status(nrs) is entered: lines 229-237
Call(arg) ==
    /\ pc = "idle"
    /\ nrs' = arg
    /\ numbers' = NumbersOf(arg)
    /\ bugs' = <<>>
    /\ i' = 0
    /\ pc' = "loop"
    /\ UNCHANGED <<calls, responses, exc, result>>
    /\ UNCHANGED <<orderVars, codecVars, parseVars, callVars, decodeVars>>

\* a loop that hands the next slice to _soap_client_call while the answer
\* to the last one is still awaited
SendBatchAhead ==
    /\ pc \in {"loop", "await"}
    /\ InRange(numbers, i + BATCH_SIZE * (Len(calls) - Len(responses)))
    /\ calls' = Append(calls, Slice(numbers, i + BATCH_SIZE * (Len(calls) - Len(responses))))
    /\ pc' = "await"
    /\ UNCHANGED <<nrs, numbers, i, bugs, responses, exc, result>>
    /\ UNCHANGED <<orderVars, codecVars, parseVars, callVars, decodeVars>>

\* line 239-240: the slice is cut and handed to _soap_client_call
SendBatch ==
    /\ pc = "loop"
    /\ InRange(numbers, i)
    /\ calls' = Append(calls, Slice(numbers, i))
    /\ pc' = "await"
    /\ UNCHANGED <<nrs, numbers, i, bugs, responses, exc, result>>
    /\ UNCHANGED <<orderVars, codecVars, parseVars, callVars, decodeVars>>

\* a loop that catches the exception of a batch and goes on to the next
BatchRaisesSwallowed ==
    /\ pc = "await"
    /\ \E o \in Outcomes(calls[Len(calls)]) :
        /\ o.kind = "raise"
        /\ responses' = Append(responses, o)
    /\ i' = NextIndex(i)
    /\ pc' = "loop"
    /\ UNCHANGED <<nrs, numbers, bugs, calls, exc, result>>
    /\ UNCHANGED <<orderVars, codecVars, parseVars, callVars, decodeVars>>

\* _soap_client_call raises: the exception leaves get_status
BatchRaises ==
    /\ pc = "await"
    /\ \E o \in Outcomes(calls[Len(calls)]) :
        /\ o.kind = "raise"
        /\ responses' = Append(responses, o)
        /\ exc' = o.exc
    /\ pc' = "raised"
    /\ UNCHANGED <<nrs, numbers, i, bugs, calls, result>>
    /\ UNCHANGED <<orderVars, codecVars, parseVars, callVars, decodeVars>>

\* _soap_client_call returns None: result_dict.values() raises
BatchNone ==
    /\ pc = "await"
    /\ \E o \in Outcomes(calls[Len(calls)]) :
        /\ o.kind = "none"
        /\ responses' = Append(responses, o)
    /\ exc' = "AttributeError"
    /\ pc' = "raised"
    /\ UNCHANGED <<nrs, numbers, i, bugs, calls, result>>
    /\ UNCHANGED <<orderVars, codecVars, parseVars, callVars, decodeVars>>

\* lines 240-242: _soap_client_call returns a dict, its values are parsed
BatchReturns ==
    /\ pc = "await"
    /\ \E o \in Outcomes(calls[Len(calls)]) :
        /\ o.kind = "dict"
        /\ responses' = Append(responses, o)
        /\ LET p == ParseValues(o.dict) IN
           /\ bugs' = Extend(bugs, p.bugs)
           /\ IF p.exc # ""
              THEN /\ exc' = p.exc
                   /\ pc' = "raised"
                   /\ i' = i
              ELSE /\ exc' = exc
                   /\ pc' = "loop"
                   /\ i' = NextIndex(i)
    /\ UNCHANGED <<nrs, numbers, calls, result>>
    /\ UNCHANGED <<orderVars, codecVars, parseVars, callVars, decodeVars>>

\* line 243: the range is exhausted, return bugs
Return ==
    /\ pc = "loop"
    /\ ~ InRange(numbers, i)
    /\ result' = Returned(bugs)
    /\ pc' = "returned"
    /\ UNCHANGED <<nrs, numbers, i, bugs, calls, responses, exc>>
    /\ UNCHANGED <<orderVars, codecVars, parseVars, callVars, decodeVars>>

StatusInit ==
    /\ pc = "idle"
    /\ nrs = IntArg(0)
    /\ numbers = <<>>
    /\ i = 0
    /\ bugs = <<>>
    /\ calls = <<>>
    /\ responses = <<>>
    /\ exc = ""
    /\ result = NoResult

StatusNext ==
    \/ \E arg \in Inputs : Call(arg)
    \/ SendBatch
    \/ BatchRaises
    \/ BatchNone
    \/ BatchReturns
    \/ Return

----------------------------------------------------------------------------
(* Properties of get_status *)

\* the error a response of _soap_client_call makes get_status raise ("" if none)
ErrorOf(o) ==
    CASE o.kind = "raise" -> o.exc
      [] o.kind = "none"  -> "AttributeError"
      [] OTHER            -> ParseValues(o.dict).exc

\* the records parsed from one returned dict, in the dict's own order
RecordsOf(o) == [k \in 1..Len(o.dict) |-> _parse_status(o.dict[k].status).bug]

\* s is a prefix of t
IsPrefix(s, t) == Len(s) <= Len(t) /\ s = SubSeq(t, 1, Len(s))

\* C1: a get_status call over N ids that returns has issued exactly
\* ceil(N / BATCH_SIZE) calls of _soap_client_call (1 for N = BATCH_SIZE,
\* 2 for N = BATCH_SIZE + 1 and for N = BATCH_SIZE + 10), and no call ever
\* issues more than that.
C1_CallCount ==
    /\ pc # "idle" => Len(calls) <= CeilDiv(Len(numbers), BATCH_SIZE)
    /\ pc = "returned" =>
        /\ Len(calls) = CeilDiv(Len(numbers), BATCH_SIZE)
        /\ Len(numbers) = BATCH_SIZE => Len(calls) = 1
        /\ Len(numbers) = BATCH_SIZE + 1 => Len(calls) = 2
        /\ Len(numbers) = BATCH_SIZE + 10 => Len(calls) = 2

C1_Witness ==
    pc = "returned" /\ Len(numbers) = BATCH_SIZE + 10 /\ Len(calls) = 2

\* C2: get_status of an empty collection issues no call and returns the
\* empty list.
C2_EmptyInput ==
    (pc # "idle" /\ nrs.isList /\ nrs.seq = <<>>) =>
        /\ calls = <<>>
        /\ pc \in {"loop", "returned"}
        /\ pc = "returned" => result = Returned(<<>>)

C2_Witness ==
    pc = "returned" /\ nrs.isList /\ nrs.seq = <<>> /\ calls = <<>>
    /\ result = Returned(<<>>)

\* C3: every batch sent is non-empty and holds at most BATCH_SIZE ids; the
\* batches sent so far, concatenated, are a prefix of the input, and the
\* whole input once the call has returned.
C3_Batches ==
    pc # "idle" =>
        /\ \A k \in 1..Len(calls) : Len(calls[k]) \in 1..BATCH_SIZE
        /\ IsPrefix(Flatten(calls), numbers)
        /\ pc = "returned" => Flatten(calls) = numbers

C3_Witness ==
    /\ pc = "returned"
    /\ Len(calls) >= 2
    /\ \E k, l \in 1..Len(numbers) : k < l /\ numbers[k] = numbers[l]
    /\ \E k, l \in 1..Len(numbers) : numbers[k] # numbers[l]
    /\ Flatten(calls) = numbers

\* C4: the list returned is the concatenation, in batch order, of the
\* records parsed from each response in the response's own order; its
\* length is the number of statuses returned over all batches.
C4_Concatenation ==
    pc = "returned" =>
        /\ result.some
        /\ result.v = Flatten([k \in 1..Len(responses) |-> RecordsOf(responses[k])])
        /\ Len(result.v) = Len(Flatten([k \in 1..Len(responses) |-> responses[k].dict]))

\* a returned call of several batches, with an id nobody answered for, an
\* empty response and two responses that differ
C4_Witness ==
    /\ pc = "returned"
    /\ Len(responses) >= 2
    /\ Len(result.v) >= 2
    /\ Len(result.v) < Len(numbers)
    /\ \E n \in Range(numbers) :
        \A k \in 1..Len(responses) : \A j \in 1..Len(responses[k].dict) :
            responses[k].dict[j].key # n
    /\ result.v[1] # result.v[Len(result.v)]

\* C5: a response that fails (an exception of _soap_client_call, a None
\* result, a status _parse_status cannot parse) is the last one of its
\* call: get_status raises that error, has sent no later batch, returns
\* nothing, and sends nothing from then on.
C5_FirstError ==
    /\ [](\A k \in 1..Len(responses) :
            ErrorOf(responses[k]) # "" =>
                /\ pc = "raised"
                /\ k = Len(responses)
                /\ Len(calls) = k
                /\ exc = ErrorOf(responses[k])
                /\ result = NoResult)
    /\ [][pc = "raised" => (pc' = "raised" /\ calls' = calls /\ result' = result)]_vars

\* the second or a later batch fails after records had been parsed
C5_Witness ==
    /\ pc = "raised"
    /\ Len(responses) >= 2
    /\ bugs # <<>>
    /\ result = NoResult
    /\ Len(calls) < CeilDiv(Len(numbers), BATCH_SIZE)

\* C21: the batches of one get_status call go out one after the other: a
\* slice is handed to _soap_client_call only when every earlier one has
\* been answered and the records of every earlier answer have been parsed
\* and appended, so at most one request is awaited at any time.
C21_BatchesSequential ==
    /\ [](Len(calls) - Len(responses) = (IF pc = "await" THEN 1 ELSE 0))
    /\ [](pc = "await" =>
            /\ \A k \in 1..Len(responses) : ErrorOf(responses[k]) = ""
            /\ bugs = Flatten([k \in 1..Len(responses) |-> RecordsOf(responses[k])]))
    /\ [][Len(calls') > Len(calls) =>
            (pc = "loop" /\ Len(calls') = Len(calls) + 1 /\ Len(responses) = Len(calls))]_vars

\* the second batch is awaited, the records of the first are parsed
C21_Witness ==
    /\ pc = "await"
    /\ Len(calls) = 2
    /\ Len(responses) = 1
    /\ Len(bugs) = 2

----------------------------------------------------------------------------
(* The order of Bugreport objects *)

Value(n) == [exc |-> "", v |-> n]
Raise(e) == [exc |-> e, v |-> 0]

\* a _get_value that looks at done before archived
_get_valueDoneFirst(bug) ==
    IF "done" \notin bug.has THEN Raise("AttributeError")
    ELSE IF ~ bug.done /\ "archived" \notin bug.has THEN Raise("AttributeError")
    ELSE IF "severity" \notin bug.has THEN Raise("AttributeError")
    ELSE IF bug.severity \notin DOMAIN SEVERITIES THEN Raise("KeyError")
    ELSE Value((IF bug.done THEN 10 ELSE IF bug.archived THEN 0 ELSE 20)
               + SEVERITIES[bug.severity])

\* Bugreport._get_value: reading an attribute that was never assigned raises
\* AttributeError, a severity that is no key of SEVERITIES raises KeyError
_get_value(bug) ==
    IF "archived" \notin bug.has THEN Raise("AttributeError")
    ELSE IF ~ bug.archived /\ "done" \notin bug.has THEN Raise("AttributeError")
    ELSE IF "severity" \notin bug.has THEN Raise("AttributeError")
    ELSE IF bug.severity \notin DOMAIN SEVERITIES THEN Raise("KeyError")
    ELSE Value((IF bug.archived THEN 0 ELSE IF bug.done THEN 10 ELSE 20)
               + SEVERITIES[bug.severity])

\* the outcome of a comparison: a truth value or the exception raised
Truth(t) == [exc |-> "", v |-> t]
Fails(e) == [exc |-> e, v |-> FALSE]
Not(o) == IF o.exc # "" THEN o ELSE Truth(~ o.v)

\* self._get_value() and other._get_value(), self first: the two values,
\* or the first exception
Operands(self, other) ==
    LET x == _get_value(self)
        y == _get_value(other)
    IN  [exc |-> IF x.exc # "" THEN x.exc ELSE y.exc, x |-> x.v, y |-> y.v]

__lt__(self, other) ==
    LET o == Operands(self, other) IN
    IF o.exc # "" THEN Fails(o.exc) ELSE Truth(o.x < o.y)

__gt__(self, other) ==
    LET o == Operands(self, other) IN
    IF o.exc # "" THEN Fails(o.exc) ELSE Truth(o.x > o.y)

\* an __le__ written as "not other <= self"
__le__Swapped(self, other) == Not(__gt__(other, self))

__le__(self, other) == Not(__gt__(self, other))
__ge__(self, other) == Not(__lt__(self, other))
\* (other is a Bugreport: the NotImplemented branch is not modelled)
__eq__(self, other) ==
    LET o == Operands(self, other) IN
    IF o.exc # "" THEN Fails(o.exc) ELSE Truth(o.x = o.y)
__ne__(self, other) == Not(__eq__(self, other))

\* ---- the objects the model builds ----
\* the severities assigned: the seven known ones and one that is no key
SeverityValues == DOMAIN SEVERITIES \cup {"fatal"}
BugNums == {1, 2}

NoCmp ==
    [done |-> FALSE, lt |-> Truth(FALSE), le |-> Truth(FALSE), gt |-> Truth(FALSE),
     ge |-> Truth(FALSE), eq |-> Truth(FALSE), ne |-> Truth(FALSE)]

\* setattr(a, field, value), as the tests' create_bugreport does and as
\* _parse_status does
SetA(field, value) ==
    /\ a' = SetAttr(a, field, value)
    /\ cmp' = NoCmp
    /\ UNCHANGED b
    /\ UNCHANGED <<statusVars, codecVars, parseVars, callVars, decodeVars>>

SetB(field, value) ==
    /\ b' = SetAttr(b, field, value)
    /\ cmp' = NoCmp
    /\ UNCHANGED a
    /\ UNCHANGED <<statusVars, codecVars, parseVars, callVars, decodeVars>>

\* a < b, a <= b, a > b, a >= b, a == b, a != b are evaluated
CompareAll ==
    /\ ~ cmp.done
    /\ cmp' = [done |-> TRUE, lt |-> __lt__(a, b), le |-> __le__(a, b),
               gt |-> __gt__(a, b), ge |-> __ge__(a, b),
               eq |-> __eq__(a, b), ne |-> __ne__(a, b)]
    /\ UNCHANGED <<a, b>>
    /\ UNCHANGED <<statusVars, codecVars, parseVars, callVars, decodeVars>>

OrderInit ==
    /\ a = Bugreport
    /\ b = Bugreport
    /\ cmp = NoCmp

OrderNext ==
    \/ \E s \in SeverityValues : SetA("severity", s)
    \/ \E f \in {"archived", "done"}, t \in BOOLEAN : SetA(f, t)
    \/ \E n \in BugNums : SetA("bug_num", n)
    \/ \E s \in SeverityValues : SetB("severity", s)
    \/ \E f \in {"archived", "done"}, t \in BOOLEAN : SetB(f, t)
    \/ \E n \in BugNums : SetB("bug_num", n)
    \/ CompareAll

----------------------------------------------------------------------------
(* Properties of the order *)

\* the severities from the least to the most urgent
SeverityOrder ==
    <<"wishlist", "minor", "normal", "important", "serious", "grave", "critical">>

\* the place of a known severity in that order, 1..7
RankOf(sev) == CHOOSE r \in 1..Len(SeverityOrder) : SeverityOrder[r] = sev

\* the object carries the three attributes the order reads, with a known severity
Ranked(bug) ==
    /\ {"severity", "archived", "done"} \subseteq bug.has
    /\ bug.severity \in Range(SeverityOrder)

\* the openness tier of a ranked object
Tier(bug) == IF bug.archived THEN "archived" ELSE IF bug.done THEN "done" ELSE "open"
TierBase(bug) == IF bug.archived THEN 0 ELSE IF bug.done THEN 10 ELSE 20

\* C6: openness beats urgency: an archived record is less than one that is
\* not archived, a done but not archived record is less than an outstanding
\* one, whatever the severities and (for the archived record) the done
\* flag; the ordering value is 0, 10 or 20 plus the severity rank 1..7.
C6_OpennessBeatsUrgency ==
    (cmp.done /\ Ranked(a) /\ Ranked(b)) =>
        /\ (a.archived /\ ~ b.archived) => cmp.lt = Truth(TRUE)
        /\ (~ a.archived /\ a.done /\ ~ b.archived /\ ~ b.done) => cmp.lt = Truth(TRUE)
        /\ _get_value(a) = Value(TierBase(a) + RankOf(a.severity))
        /\ _get_value(b) = Value(TierBase(b) + RankOf(b.severity))

\* an archived critical bug that is also done, compared with a done
\* wishlist bug that is not archived
C6_Witness ==
    /\ cmp.done /\ Ranked(a) /\ Ranked(b)
    /\ a.archived /\ a.done /\ a.severity = "critical"
    /\ ~ b.archived /\ b.done /\ b.severity = "wishlist"
    /\ cmp.lt = Truth(TRUE)

\* C7: between two records of equal archived and done flags, a < b holds
\* exactly when the severity of a ranks below the severity of b
\* (wishlist < minor < normal < important < serious < grave < critical).
C7_SeverityWithinTier ==
    (cmp.done /\ Ranked(a) /\ Ranked(b)
        /\ a.archived = b.archived /\ a.done = b.done) =>
        /\ cmp.lt.exc = ""
        /\ cmp.lt.v <=> (RankOf(a.severity) < RankOf(b.severity))

C7_Witness ==
    /\ cmp.done /\ Ranked(a) /\ Ranked(b)
    /\ a.archived = b.archived /\ a.done = b.done
    /\ a.severity = "important" /\ b.severity = "serious"
    /\ cmp.lt = Truth(TRUE)

\* C8: on ranked records the six operators agree with each other: exactly
\* one of a < b, a == b, a > b; a <= b iff not a > b; a >= b iff not a < b;
\* a != b iff not a == b; and records of the same tier and severity are
\* equal whatever their other attributes.
C8_OperatorsConsistent ==
    (cmp.done /\ Ranked(a) /\ Ranked(b)) =>
        /\ \A op \in {"lt", "le", "gt", "ge", "eq", "ne"} : cmp[op].exc = ""
        /\ Cardinality({op \in {"lt", "eq", "gt"} : cmp[op].v}) = 1
        /\ cmp.le.v <=> ~ cmp.gt.v
        /\ cmp.ge.v <=> ~ cmp.lt.v
        /\ cmp.ne.v <=> ~ cmp.eq.v
        /\ (Tier(a) = Tier(b) /\ a.severity = b.severity) => cmp.eq.v

\* equal tier and severity, different bug numbers and done flags
C8_Witness ==
    /\ cmp.done /\ Ranked(a) /\ Ranked(b)
    /\ Tier(a) = Tier(b) /\ a.severity = b.severity
    /\ a.done # b.done
    /\ "bug_num" \in a.has /\ "bug_num" \in b.has /\ a.bug_num # b.bug_num
    /\ cmp.eq.v /\ cmp.le.v /\ cmp.ge.v /\ ~ cmp.lt.v /\ ~ cmp.gt.v /\ ~ cmp.ne.v

\* a flag counts as set when it was assigned and assigned True
FlagSet(bug, flag) == flag \in bug.has /\ bug[flag]

\* the ordering value of an object whose unassigned flags count as false
ValueWithFlagsFalse(bug) ==
    (IF FlagSet(bug, "archived") THEN 0 ELSE IF FlagSet(bug, "done") THEN 10 ELSE 20)
        + RankOf(bug.severity)

\* the object carries a known severity, whatever else was assigned
HasSeverity(bug) == "severity" \in bug.has /\ bug.severity \in Range(SeverityOrder)

\* C28: two objects that carry a known severity can be compared with all six
\* operators, a flag that was never assigned counting as false: no operator
\* raises, and each gives what the ordering values with the missing flags
\* read as false give (only done=True ranks above only archived=True of the
\* same severity, neither flag ranks as outstanding).
C28_UnassignedFlagsFalse ==
    (cmp.done /\ HasSeverity(a) /\ HasSeverity(b)) =>
        LET x == ValueWithFlagsFalse(a)
            y == ValueWithFlagsFalse(b)
        IN  /\ cmp.lt = Truth(x < y)
            /\ cmp.le = Truth(x <= y)
            /\ cmp.gt = Truth(x > y)
            /\ cmp.ge = Truth(x >= y)
            /\ cmp.eq = Truth(x = y)
            /\ cmp.ne = Truth(x # y)

----------------------------------------------------------------------------
(* Native values and XML elements *)

\* A native Python value.  k is its type; s the text of a str; n the number
\* of an int or bool (True is 1); items the items of a list or the values
\* of a dict; keys the keys of a dict, in insertion order.
PyStr(t)       == [k |-> "str",  s |-> t,    n |-> 0, items |-> <<>>, keys |-> <<>>]
PyInt(n)       == [k |-> "int",  s |-> <<>>, n |-> n, items |-> <<>>, keys |-> <<>>]
PyBool(t)      == [k |-> "bool", s |-> <<>>, n |-> IF t THEN 1 ELSE 0, items |-> <<>>, keys |-> <<>>]
PyList(xs)     == [k |-> "list", s |-> <<>>, n |-> 0, items |-> xs,   keys |-> <<>>]
PyDict(ks, vs) == [k |-> "dict", s |-> <<>>, n |-> 0, items |-> vs,   keys |-> ks]
PyNone         == [k |-> "none", s |-> <<>>, n |-> 0, items |-> <<>>, keys |-> <<>>]
\* the text base64.b64decode(t).decode("utf-8", errors="replace") yields
B64Text(t)   == [k |-> "b64text", s |-> t, n |-> 0, items |-> <<>>, keys |-> <<>>]

\* the XML namespaces
SOAPENV == "http://schemas.xmlsoap.org/soap/envelope/"
SOAPENC == "http://schemas.xmlsoap.org/soap/encoding/"
XSD == "http://www.w3.org/2001/XMLSchema"
XSI == "http://www.w3.org/2001/XMLSchema-instance"

\* An attribute value: absent, a text, or an ET.QName(ns, local) object
NoAttr         == [some |-> FALSE, qname |-> FALSE, ns |-> "", v |-> <<>>]
TextAttr(t)    == [some |-> TRUE,  qname |-> FALSE, ns |-> "", v |-> t]
QName(ns, loc) == [some |-> TRUE,  qname |-> TRUE,  ns |-> ns, v |-> loc]

\* An element: its tag, its {XSI}type and {SOAPENC}arrayType attributes,
\* its text (None or a str) and its children
Element(tag, typ, arrayType, text, children) ==
    [tag |-> tag, typ |-> typ, arrayType |-> arrayType, text |-> text,
     children |-> children]

\* the names the codec writes and reads
T_string  == <<"s", "t", "r", "i", "n", "g">>
T_int     == <<"i", "n", "t">>
T_float   == <<"f", "l", "o", "a", "t">>
T_base64  == <<"b", "a", "s", "e", "6", "4", "B", "i", "n", "a", "r", "y">>
T_Array   == <<"A", "r", "r", "a", "y">>
T_Map     == <<"M", "a", "p">>
T_anyType == <<"a", "n", "y", "T", "y", "p", "e">>
N_item    == <<"i", "t", "e", "m">>
N_arg     == <<"a", "r", "g">>
N_value   == <<"v", "a", "l", "u", "e">>

----------------------------------------------------------------------------
(* _encode_value *)

Encoded(e) == [exc |-> "", el |-> e]
EncodeFails(e) ==
    [exc |-> e, el |-> Element(<<>>, NoAttr, NoAttr, NoText, <<>>)]

\* a flattening that lists the keys, then the values
FlattenItemsKeysFirst(value) == value.keys \o value.items

\* [x for pair in value.items() for x in pair]
FlattenItems(value) ==
    [j \in 1..(2 * Len(value.keys)) |->
        IF j % 2 = 1 THEN value.keys[(j + 1) \div 2] ELSE value.items[j \div 2]]

\* ET.QName(XSD, "anyType[%d]" % len(value))
ArrayTypeOf(n) == QName(XSD, T_anyType \o <<"[">> \o IntToStr(n) \o <<"]">>)

RECURSIVE _encode_value(_, _)
\* _encode_value(parent, name, value): the element appended to parent, or
\* the exception raised
_encode_value(name, value) ==
    CASE value.k = "str" ->
            Encoded(Element(name, QName(XSD, T_string), NoAttr, SomeText(value.s), <<>>))
      [] value.k \in {"int", "bool"} ->
            Encoded(Element(name, QName(XSD, T_int), NoAttr,
                            SomeText(IntToStr(value.n)), <<>>))
      [] value.k \in {"list", "dict"} ->
            LET xs   == IF value.k = "dict" THEN FlattenItems(value) ELSE value.items
                subs == [j \in 1..Len(xs) |-> _encode_value(N_item, xs[j])]
            IN  IF \E j \in 1..Len(xs) : subs[j].exc # ""
                THEN EncodeFails(
                        subs[CHOOSE j \in 1..Len(xs) :
                                /\ subs[j].exc # ""
                                /\ \A l \in 1..(j - 1) : subs[l].exc = ""].exc)
                ELSE Encoded(Element(name, QName(SOAPENC, T_Array),
                                     ArrayTypeOf(Len(xs)), NoText,
                                     [j \in 1..Len(xs) |-> subs[j].el]))
      [] OTHER -> EncodeFails("ValueError")

----------------------------------------------------------------------------
(* ET.tostring and ET.fromstring *)

\* the prefix ET.tostring writes for a namespace (it holds no colon)
PrefixOf(ns) ==
    CASE ns = XSD -> <<"x", "s">>
      [] ns = XSI -> <<"x", "s", "i">>
      [] OTHER    -> <<"n", "s", "1">>

\* an attribute after ET.tostring and ET.fromstring: a QName is written as
\* prefix:local and read back as that text
WireAttr(at) ==
    IF at.some /\ at.qname THEN TextAttr(PrefixOf(at.ns) \o <<":">> \o at.v) ELSE at

\* the characters drawn that XML 1.0 does not allow in a document
XmlForbidden == {"\f"}

RECURSIVE ReadText(_)
\* the text the parser reports for the characters written: a carriage
\* return, alone or before a line feed, is read as a line feed
ReadText(t) ==
    IF t = <<>> THEN <<>>
    ELSE IF Head(t) = "\r"
         THEN IF Len(t) >= 2 /\ t[2] = "\n"
              THEN <<"\n">> \o ReadText(SubSeq(t, 3, Len(t)))
              ELSE <<"\n">> \o ReadText(Tail(t))
         ELSE <<Head(t)>> \o ReadText(Tail(t))

RECURSIVE WellFormed(_)
\* ET.fromstring accepts what ET.tostring wrote for the element
WellFormed(e) ==
    /\ \A k \in 1..Len(e.text.v) : e.text.v[k] \notin XmlForbidden
    /\ \A j \in 1..Len(e.children) : WellFormed(e.children[j])

RECURSIVE OverTheWire(_)
\* ET.fromstring(ET.tostring(element)) for a well-formed element: an
\* element without text and children is written as an empty tag, whose
\* text reads back as None
OverTheWire(e) ==
    Element(e.tag, WireAttr(e.typ), WireAttr(e.arrayType),
            IF e.text.some /\ e.text.v = <<>> THEN NoText
            ELSE IF e.text.some THEN SomeText(ReadText(e.text.v)) ELSE NoText,
            [j \in 1..Len(e.children) |-> OverTheWire(e.children[j])])

----------------------------------------------------------------------------
(* _decode_value *)

Decoded(v) == [exc |-> "", v |-> v]
DecodeFails(e) == [exc |-> e, v |-> PyNone]

\* a prefix cut that keeps the colon: typ[typ.find(":"):]
StripPrefixKeepsColon(typ) == From(typ, IF Find(typ, ":") < 0 THEN 0 ELSE Find(typ, ":"))

\* typ[typ.find(":") + 1 :]
StripPrefix(typ) == From(typ, Find(typ, ":") + 1)

\* _remove_namespace(tag)
_remove_namespace(tag) == From(tag, Find(tag, "}") + 1)

RECURSIVE DictFromPairs(_, _, _)
\* a dict comprehension over (key, value) pairs: a key met again keeps its
\* place and takes the later value
DictFromPairs(ks, vs, acc) ==
    IF ks = <<>> THEN acc
    ELSE LET key == Head(ks)
             v   == Head(vs)
         IN  IF \E j \in 1..Len(acc.keys) : acc.keys[j] = key
             THEN LET at == CHOOSE j \in 1..Len(acc.keys) : acc.keys[j] = key
                  IN  DictFromPairs(Tail(ks), Tail(vs),
                                    PyDict(acc.keys, [acc.items EXCEPT ![at] = v]))
             ELSE DictFromPairs(Tail(ks), Tail(vs),
                                PyDict(Append(acc.keys, key), Append(acc.items, v)))

\* a decoder that goes on after a child it cannot decode
FirstExcIgnored(rs) == ""

\* the first exception among a sequence of results ("" if none)
FirstExc(rs) ==
    IF \E j \in 1..Len(rs) : rs[j].exc # ""
    THEN rs[CHOOSE j \in 1..Len(rs) :
                rs[j].exc # "" /\ \A l \in 1..(j - 1) : rs[l].exc = ""].exc
    ELSE ""

RECURSIVE _decode_valueRun(_, _)
\* _decode_value(element) as the interpreter runs it: the native value, or
\* the exception raised.  optimize is python -O, which leaves the assert
\* statement out
_decode_valueRun(element, optimize) ==
    IF element.typ.some /\ element.typ.qname
    THEN DecodeFails("AttributeError")   \* a QName object has no find()
    ELSE
    LET raw  == element.typ
        \* typ is None, or "" (which `if typ:` leaves alone), or cut
        typ  == IF raw.some /\ raw.v # <<>> THEN TextAttr(StripPrefix(raw.v)) ELSE raw
        text == IF element.text.some THEN element.text.v ELSE <<>>
        kids == element.children
    IN  CASE typ.some /\ typ.v \in {T_string, T_int, T_float} -> Decoded(PyStr(text))
          [] typ.some /\ typ.v = T_base64 -> Decoded(B64Text(text))
          [] typ.some /\ typ.v = T_Array ->
                LET rs == [j \in 1..Len(kids) |-> _decode_valueRun(kids[j], optimize)] IN
                IF FirstExc(rs) # "" THEN DecodeFails(FirstExc(rs))
                ELSE Decoded(PyList([j \in 1..Len(kids) |-> rs[j].v]))
          [] typ.some /\ typ.v = T_Map ->
                IF ~ optimize /\ \E j \in 1..Len(kids) : Len(kids[j].children) # 2
                THEN DecodeFails("AssertionError")
                ELSE LET \* per item: item[0] is decoded, then item[1], then
                         \* the key is hashed
                         ps == [j \in 1..Len(kids) |->
                                  LET item == kids[j].children IN
                                  IF item = <<>>
                                  THEN [exc |-> "IndexError", key |-> PyNone, v |-> PyNone]
                                  ELSE LET key == _decode_valueRun(item[1], optimize) IN
                                       IF key.exc # ""
                                       THEN [exc |-> key.exc, key |-> PyNone, v |-> PyNone]
                                       ELSE IF Len(item) = 1
                                       THEN [exc |-> "IndexError", key |-> PyNone, v |-> PyNone]
                                       ELSE LET v == _decode_valueRun(item[2], optimize) IN
                                            IF v.exc # ""
                                            THEN [exc |-> v.exc, key |-> PyNone, v |-> PyNone]
                                            ELSE IF key.v.k \in {"list", "dict"}
                                            THEN [exc |-> "TypeError", key |-> PyNone, v |-> PyNone]
                                            ELSE [exc |-> "", key |-> key.v, v |-> v.v]]
                     IN  IF FirstExc(ps) # "" THEN DecodeFails(FirstExc(ps))
                         ELSE Decoded(DictFromPairs(
                                 [j \in 1..Len(kids) |-> ps[j].key],
                                 [j \in 1..Len(kids) |-> ps[j].v],
                                 PyDict(<<>>, <<>>)))
          [] ~ typ.some ->
                LET rs == [j \in 1..Len(kids) |-> _decode_valueRun(kids[j], optimize)] IN
                IF FirstExc(rs) # "" THEN DecodeFails(FirstExc(rs))
                ELSE Decoded(DictFromPairs(
                        [j \in 1..Len(kids) |-> PyStr(_remove_namespace(kids[j].tag))],
                        [j \in 1..Len(kids) |-> rs[j].v],
                        PyDict(<<>>, <<>>)))
          [] OTHER -> DecodeFails("ValueError")

\* _decode_value(element) under the interpreter's defaults
_decode_value(element) == _decode_valueRun(element, FALSE)

----------------------------------------------------------------------------
(* The codec at work: a value is built, encoded, sent and decoded *)

MaxDepth == 2
MaxLen == 2

\* the values a build starts from: texts (plain, with carriage returns, with
\* a form feed), ints, a bool, the empty list and dict, and None, which the
\* codec does not encode
Atoms ==
    {PyStr(<<>>), PyStr(<<"a">>), PyStr(<<"\r", "\n">>), PyStr(<<"b", "\r">>),
     PyStr(<<"\f">>), PyInt(0), PyInt(-12), PyBool(TRUE),
     PyList(<<>>), PyDict(<<>>, <<>>), PyNone}
\* the values appended to a list or stored under a new key
ItemAtoms == {PyStr(<<"a">>), PyInt(-12)}
KeyAtoms == {PyStr(<<"a">>), PyInt(0)}

RECURSIVE Depth(_)
Depth(v) ==
    IF v.k \notin {"list", "dict"} \/ v.items = <<>> THEN 0
    ELSE 1 + Depth(v.items[CHOOSE j \in 1..Len(v.items) :
                        \A l \in 1..Len(v.items) : Depth(v.items[l]) <= Depth(v.items[j])])

NoElement == Element(<<>>, NoAttr, NoAttr, NoText, <<>>)

\* value = x
NewValue(x) ==
    /\ cpc = "native"
    /\ val' = x
    /\ UNCHANGED <<cpc, el, wire, out>>
    /\ UNCHANGED <<statusVars, orderVars, parseVars, callVars, decodeVars>>

\* value = [value]
WrapList ==
    /\ cpc = "native"
    /\ Depth(val) < MaxDepth
    /\ val' = PyList(<<val>>)
    /\ UNCHANGED <<cpc, el, wire, out>>
    /\ UNCHANGED <<statusVars, orderVars, parseVars, callVars, decodeVars>>

\* value.append(x)
AppendItem(x) ==
    /\ cpc = "native"
    /\ val.k = "list"
    /\ Len(val.items) < MaxLen
    /\ val' = PyList(Append(val.items, x))
    /\ UNCHANGED <<cpc, el, wire, out>>
    /\ UNCHANGED <<statusVars, orderVars, parseVars, callVars, decodeVars>>

\* value = {key: value}
WrapDict(key) ==
    /\ cpc = "native"
    /\ Depth(val) < MaxDepth
    /\ val' = PyDict(<<key>>, <<val>>)
    /\ UNCHANGED <<cpc, el, wire, out>>
    /\ UNCHANGED <<statusVars, orderVars, parseVars, callVars, decodeVars>>

\* value[key] = x, for a key the dict does not have
SetItem(key, x) ==
    /\ cpc = "native"
    /\ val.k = "dict"
    /\ Len(val.keys) < MaxLen
    /\ \A j \in 1..Len(val.keys) : val.keys[j] # key
    /\ val' = PyDict(Append(val.keys, key), Append(val.items, x))
    /\ UNCHANGED <<cpc, el, wire, out>>
    /\ UNCHANGED <<statusVars, orderVars, parseVars, callVars, decodeVars>>

\* _encode_value(root, "value", value)
EncodeValue ==
    /\ cpc = "native"
    /\ LET r == _encode_value(N_value, val) IN
       /\ el' = r.el
       /\ cpc' = IF r.exc # "" THEN "failed" ELSE "encoded"
       /\ out' = IF r.exc # "" THEN DecodeFails(r.exc) ELSE out
    /\ UNCHANGED <<val, wire>>
    /\ UNCHANGED <<statusVars, orderVars, parseVars, callVars, decodeVars>>

\* ET.fromstring(ET.tostring(root))[0], or the ParseError of ET.fromstring
Transmit ==
    /\ cpc = "encoded"
    /\ IF WellFormed(el)
       THEN /\ wire' = OverTheWire(el)
            /\ cpc' = "wire"
            /\ out' = out
       ELSE /\ wire' = wire
            /\ cpc' = "failed"
            /\ out' = DecodeFails("ParseError")
    /\ UNCHANGED <<val, el>>
    /\ UNCHANGED <<statusVars, orderVars, parseVars, callVars, decodeVars>>

\* _decode_value of the element read back
DecodeValue ==
    /\ cpc = "wire"
    /\ out' = _decode_value(wire)
    /\ cpc' = "decoded"
    /\ UNCHANGED <<val, el, wire>>
    /\ UNCHANGED <<statusVars, orderVars, parseVars, callVars, decodeVars>>

\* _decode_value of the element _encode_value built, never serialised
DecodeInMemory ==
    /\ cpc = "encoded"
    /\ out' = _decode_value(el)
    /\ cpc' = "decoded-in-memory"
    /\ UNCHANGED <<val, el, wire>>
    /\ UNCHANGED <<statusVars, orderVars, parseVars, callVars, decodeVars>>

CodecInit ==
    /\ cpc = "native"
    /\ val = PyStr(<<>>)
    /\ el = NoElement
    /\ wire = NoElement
    /\ out = Decoded(PyNone)

CodecNext ==
    \/ \E x \in Atoms : NewValue(x)
    \/ WrapList
    \/ \E x \in ItemAtoms : AppendItem(x)
    \/ \E key \in KeyAtoms : WrapDict(key)
    \/ \E key \in KeyAtoms, x \in ItemAtoms : SetItem(key, x)
    \/ EncodeValue
    \/ Transmit
    \/ DecodeValue
    \/ DecodeInMemory

----------------------------------------------------------------------------
(* Properties of the codec *)

RECURSIVE Supported(_)
\* a string, an integer, a boolean, or a sequence or mapping of such values
Supported(v) ==
    /\ v.k \in {"str", "int", "bool", "list", "dict"}
    /\ \A j \in 1..Len(v.items) : Supported(v.items[j])
    /\ \A j \in 1..Len(v.keys) : Supported(v.keys[j])

RECURSIVE Stringified(_)
\* the value with every integer in it (a boolean being the integer 0 or 1)
\* replaced by its decimal string, and its shape kept
Stringified(v) ==
    CASE v.k \in {"int", "bool"} -> PyStr(IntToStr(v.n))
      [] v.k = "list" -> PyList([j \in 1..Len(v.items) |-> Stringified(v.items[j])])
      [] v.k = "dict" -> PyDict([j \in 1..Len(v.keys) |-> Stringified(v.keys[j])],
                                [j \in 1..Len(v.items) |-> Stringified(v.items[j])])
      [] OTHER -> v

\* the items key1, value1, key2, value2, ... of a mapping
Alternating(v) ==
    [j \in 1..(2 * Len(v.keys)) |->
        IF j % 2 = 1 THEN v.keys[(j + 1) \div 2] ELSE v.items[j \div 2]]

RECURSIVE StringifiedFlat(_)
\* the same, with every mapping in it replaced by the list of its keys and
\* values, alternating
StringifiedFlat(v) ==
    CASE v.k \in {"int", "bool"} -> PyStr(IntToStr(v.n))
      [] v.k = "list" -> PyList([j \in 1..Len(v.items) |-> StringifiedFlat(v.items[j])])
      [] v.k = "dict" -> PyList([j \in 1..(2 * Len(v.keys)) |->
                                    StringifiedFlat(Alternating(v)[j])])
      [] OTHER -> v

RECURSIVE HasDict(_)
HasDict(v) == v.k = "dict" \/ \E j \in 1..Len(v.items) : HasDict(v.items[j])

RECURSIVE Texts(_)
\* the texts of the strings in a value
Texts(v) ==
    (IF v.k = "str" THEN {v.s} ELSE {})
    \cup UNION { Texts(v.items[j]) : j \in 1..Len(v.items) }
    \cup UNION { Texts(v.keys[j]) : j \in 1..Len(v.keys) }

\* no string in the value holds a character XML forbids
Writable(v) == \A t \in Texts(v) : \A k \in 1..Len(t) : t[k] \notin XmlForbidden

\* no string in the value holds a carriage return
NoReturns(v) == \A t \in Texts(v) : \A k \in 1..Len(t) : t[k] # "\r"

\* C9 as stated: decoding the element written for a supported value (whose
\* strings XML can carry) gives the value back, integers as their decimal
\* strings.
C9_RoundTripAsStated ==
    (Supported(val) /\ Writable(val) /\ NoReturns(val) /\ cpc = "decoded") =>
        out = Decoded(Stringified(val))

\* C9, amended: the element written for a supported value whose strings XML
\* can carry is read back and decoded without error, and gives the value
\* with every integer as its decimal string (True as "1") and every mapping
\* as the list key1, value1, key2, value2, ...; a value holding no mapping
\* comes back in its own shape.
C9_RoundTrip ==
    (Supported(val) /\ Writable(val) /\ NoReturns(val)) =>
        /\ cpc # "failed"
        /\ cpc = "decoded" =>
            /\ out = Decoded(StringifiedFlat(val))
            /\ ~ HasDict(val) => out = Decoded(Stringified(val))

\* a list holding a list of a boolean and a negative integer, decoded
C9_Witness ==
    /\ cpc = "decoded"
    /\ val = PyList(<<PyList(<<PyBool(TRUE), PyInt(-12)>>), PyStr(<<"a">>)>>)
    /\ out = Decoded(PyList(<<PyList(<<PyStr(<<"1">>), PyStr(<<"-", "1", "2">>)>>),
                              PyStr(<<"a">>)>>))

\* C10: the element written for a mapping is the element written for the
\* list key1, value1, key2, value2, ...: an Array declaring twice as many
\* items as the mapping has entries, whose items are the encoded keys and
\* values, alternating.
C10_MappingFlattened ==
    (cpc = "encoded" /\ val.k = "dict") =>
        /\ el = _encode_value(N_value, PyList(Alternating(val))).el
        /\ el.typ = QName(SOAPENC, T_Array)
        /\ el.arrayType = QName(XSD, T_anyType \o <<"[">> \o IntToStr(2 * Len(val.keys)) \o <<"]">>)
        /\ Len(el.children) = 2 * Len(val.keys)
        /\ \A j \in 1..Len(val.keys) :
            /\ el.children[2 * j - 1] = _encode_value(N_item, val.keys[j]).el
            /\ el.children[2 * j] = _encode_value(N_item, val.items[j]).el

\* a mapping of two entries, one of them a list
C10_Witness ==
    /\ cpc = "encoded"
    /\ val.k = "dict"
    /\ Len(val.keys) = 2
    /\ val.items[1].k = "list"
    /\ val.keys[1] # val.keys[2]
    /\ Len(el.children) = 4

----------------------------------------------------------------------------
(* _decode_value at work on what a server sends: an element is received
   and decoded, by python or by python -O *)

MaxHeight == 3
MaxItems == 2

\* an xsi:type attribute as ET.fromstring reads it
Typed(ns, local) == WireAttr(QName(ns, local))

T_double == <<"d", "o", "u", "b", "l", "e">>
N_key == <<"k", "e", "y">>

\* the types of the elements without children that are drawn: two the
\* decoder knows, one it does not know, and the empty type
LeafTypes == {Typed(XSD, T_string), Typed(XSD, T_int), Typed(XSD, T_double), TextAttr(<<>>)}

LeafOf(name, typ) == Element(name, typ, NoAttr, SomeText(<<"a">>), <<>>)

\* the children of an item of a Map that are drawn around or beside a
\* value: a key, and a third child of a type the decoder does not know
KeyLeaf == LeafOf(N_key, Typed(XSD, T_string))
ExtraLeaf == LeafOf(N_value, Typed(XSD, T_double))

\* <item>...</item>
Item(children) == Element(N_item, NoAttr, NoAttr, NoText, children)

RECURSIVE Height(_)
Height(e) ==
    IF e.children = <<>> THEN 0
    ELSE 1 + Height(e.children[CHOOSE j \in 1..Len(e.children) :
                        \A l \in 1..Len(e.children) :
                            Height(e.children[l]) <= Height(e.children[j])])

\* <value xsi:type="...">a</value>
ReceiveLeaf(typ) ==
    /\ dpc = "received"
    /\ recv' = LeafOf(N_value, typ)
    /\ UNCHANGED <<dpc, opt, dec>>
    /\ UNCHANGED <<statusVars, orderVars, codecVars, parseVars, callVars>>

\* the element becomes the only child of an Array
InArray ==
    /\ dpc = "received"
    /\ Height(recv) < MaxHeight
    /\ recv' = Element(N_value, Typed(SOAPENC, T_Array), NoAttr, NoText, <<recv>>)
    /\ UNCHANGED <<dpc, opt, dec>>
    /\ UNCHANGED <<statusVars, orderVars, codecVars, parseVars, callVars>>

\* the element becomes the only child of an element without type
InStruct ==
    /\ dpc = "received"
    /\ Height(recv) < MaxHeight
    /\ recv' = Element(N_value, NoAttr, NoAttr, NoText, <<recv>>)
    /\ UNCHANGED <<dpc, opt, dec>>
    /\ UNCHANGED <<statusVars, orderVars, codecVars, parseVars, callVars>>

\* the element becomes the value of the only item of a Map; the item has
\* n of the children key, value and a third one
InMapAsValue(n) ==
    /\ dpc = "received"
    /\ Height(recv) + 1 < MaxHeight
    /\ recv' = Element(N_value, Typed(XSD, T_Map), NoAttr, NoText,
                       << Item(SubSeq(<<KeyLeaf, recv, ExtraLeaf>>, 1, n)) >>)
    /\ UNCHANGED <<dpc, opt, dec>>
    /\ UNCHANGED <<statusVars, orderVars, codecVars, parseVars, callVars>>

\* the element becomes the key of the only item of a Map
InMapAsKey ==
    /\ dpc = "received"
    /\ Height(recv) + 1 < MaxHeight
    /\ recv' = Element(N_value, Typed(XSD, T_Map), NoAttr, NoText,
                       << Item(<<recv, LeafOf(N_value, Typed(XSD, T_int))>>) >>)
    /\ UNCHANGED <<dpc, opt, dec>>
    /\ UNCHANGED <<statusVars, orderVars, codecVars, parseVars, callVars>>

\* a Map gets one more item, of n children
AddItem(n) ==
    /\ dpc = "received"
    /\ recv.typ = Typed(XSD, T_Map)
    /\ Len(recv.children) < MaxItems
    /\ recv' = [recv EXCEPT !.children =
                    Append(@, Item(SubSeq(<<LeafOf(N_key, Typed(XSD, T_int)),
                                                    LeafOf(N_value, Typed(XSD, T_string)),
                                                    ExtraLeaf>>, 1, n)))]
    /\ UNCHANGED <<dpc, opt, dec>>
    /\ UNCHANGED <<statusVars, orderVars, codecVars, parseVars, callVars>>

\* _decode_value(recv), run by python (optimize = FALSE) or by python -O
DecodeReceived(optimize) ==
    /\ dpc = "received"
    /\ dec' = _decode_valueRun(recv, optimize)
    /\ opt' = optimize
    /\ dpc' = "decoded"
    /\ UNCHANGED recv
    /\ UNCHANGED <<statusVars, orderVars, codecVars, parseVars, callVars>>

DecodeInit ==
    /\ dpc = "received"
    /\ recv = LeafOf(N_value, Typed(XSD, T_string))
    /\ opt = FALSE
    /\ dec = Decoded(PyNone)

DecodeNext ==
    \/ \E typ \in LeafTypes : ReceiveLeaf(typ)
    \/ InArray
    \/ InStruct
    \/ \E n \in 0..3 : InMapAsValue(n)
    \/ InMapAsKey
    \/ \E n \in 0..3 : AddItem(n)
    \/ \E optimize \in BOOLEAN : DecodeReceived(optimize)

----------------------------------------------------------------------------
(* Properties of _decode_value on what a server sends *)

\* the element is declared a Map
IsMap(e) == e.typ.some /\ StripPrefix(e.typ.v) = T_Map

\* C25 as stated: decoding a Map with a child that has not exactly two
\* sub-elements raises and returns no mapping; decoding any other Map
\* gives the mapping from the decoded first to the decoded second
\* sub-element of each child, when these decode and the first can be a key.
C25_MapPairsChecked ==
    (dpc = "decoded" /\ IsMap(recv)) =>
        IF \E j \in 1..Len(recv.children) : Len(recv.children[j].children) # 2
        THEN dec.exc # "" /\ dec.v = PyNone
        ELSE LET ks == [j \in 1..Len(recv.children) |->
                            _decode_valueRun(recv.children[j].children[1], opt)]
                 vs == [j \in 1..Len(recv.children) |->
                            _decode_valueRun(recv.children[j].children[2], opt)]
             IN  (\A j \in 1..Len(recv.children) :
                    /\ ks[j].exc = "" /\ vs[j].exc = ""
                    /\ ks[j].v.k \notin {"list", "dict"}) =>
                    /\ dec.exc = ""
                    /\ dec.v.k = "dict"
                    /\ \A j \in 1..Len(recv.children) :
                            \E l \in 1..Len(dec.v.keys) :
                                /\ dec.v.keys[l] = ks[j].v
                                /\ (\A m \in (j + 1)..Len(recv.children) : ks[m].v # ks[j].v)
                                        => dec.v.items[l] = vs[j].v
                    /\ \A l \in 1..Len(dec.v.keys) :
                            \E j \in 1..Len(recv.children) : dec.v.keys[l] = ks[j].v

\* the element declares a type that is none of string, int, float,
\* base64Binary, Array and Map
UnknownType(e) ==
    /\ e.typ.some
    /\ StripPrefix(e.typ.v) \notin {T_string, T_int, T_float, T_base64, T_Array, T_Map}

RECURSIVE HoldsUnknownType(_)
\* an element of unknown type is the element itself or is nested in it: a
\* child of an Array or of an element without type, the key or the value of
\* an item of a Map, at any depth
HoldsUnknownType(e) ==
    \/ UnknownType(e)
    \/ /\ ~ e.typ.some \/ StripPrefix(e.typ.v) = T_Array
       /\ \E j \in 1..Len(e.children) : HoldsUnknownType(e.children[j])
    \/ /\ IsMap(e)
       /\ \E j \in 1..Len(e.children) :
            \E l \in 1..Min(2, Len(e.children[j].children)) :
                HoldsUnknownType(e.children[j].children[l])

RECURSIVE HoldsMap(_)
HoldsMap(e) == IsMap(e) \/ \E j \in 1..Len(e.children) : HoldsMap(e.children[j])

\* C26: decoding an element of unknown declared type raises ValueError, and
\* so does decoding an element that holds one inside an Array, a Map or an
\* element without type: the outer call returns no value (where a Map is
\* involved, the error of a malformed item or of a key that cannot be a
\* key may come first).
C26_UnknownTypeRaises ==
    (dpc = "decoded" /\ HoldsUnknownType(recv)) =>
        /\ dec.exc \in {"ValueError", "AssertionError", "IndexError", "TypeError"}
        /\ dec.v = PyNone
        /\ ~ HoldsMap(recv) => dec.exc = "ValueError"

\* a double is the only child of an Array that is the value of an item of
\* a Map
C26_Witness ==
    /\ dpc = "decoded"
    /\ IsMap(recv)
    /\ Len(recv.children) = 1 /\ Len(recv.children[1].children) = 2
    /\ recv.children[1].children[2].typ = Typed(SOAPENC, T_Array)
    /\ recv.children[1].children[2].children = << LeafOf(N_value, Typed(XSD, T_double)) >>
    /\ dec = DecodeFails("ValueError")

----------------------------------------------------------------------------
(* _parse_status at work: a decoded status is received and parsed *)

MaxAffects == 4

\* the values drawn for the keys whose processing the model follows
FlagTexts == {<<>>, <<"0">>, <<" ">>, <<"A", "l">>, <<"0", "0">>, <<"0", ".", "0">>}
ArchivedTexts == {<<"0">>, <<"0", "0">>}
UnarchivedTexts == {<<>>, <<"0", ".", "0">>}
SeverityTexts == {"normal", "critical", "fatal"}
BugNumTexts == {<<"7">>, <<"x">>}
AffectsChars == {"a", ",", " "}
\* the keys a status is drawn without
DroppedKeys == {"severity", "affects"}

\* bug_el[field] = value
StatusField(field, value) ==
    /\ ppc = "decoded"
    /\ bugEl' = [bugEl EXCEPT ![field] = value, !.keys = @ \cup {field}]
    /\ UNCHANGED <<ppc, bugOut>>
    /\ UNCHANGED <<statusVars, orderVars, codecVars, callVars, decodeVars>>

\* del bug_el[field]
StatusWithout(field) ==
    /\ ppc = "decoded"
    /\ field \in bugEl.keys
    /\ bugEl' = [bugEl EXCEPT !.keys = @ \ {field}]
    /\ UNCHANGED <<ppc, bugOut>>
    /\ UNCHANGED <<statusVars, orderVars, codecVars, callVars, decodeVars>>

\* bug_el["affects"] += c
AffectsChar(c) ==
    /\ ppc = "decoded"
    /\ Len(bugEl.affects) < MaxAffects
    /\ bugEl' = [bugEl EXCEPT !.affects = Append(@, c)]
    /\ UNCHANGED <<ppc, bugOut>>
    /\ UNCHANGED <<statusVars, orderVars, codecVars, callVars, decodeVars>>

\* _parse_status(bugEl)
ParseStatus ==
    /\ ppc = "decoded"
    /\ bugOut' = _parse_status(bugEl)
    /\ ppc' = "parsed"
    /\ UNCHANGED bugEl
    /\ UNCHANGED <<statusVars, orderVars, codecVars, callVars, decodeVars>>

ParseInit ==
    /\ ppc = "decoded"
    /\ bugEl = OpenStatus(1)
    /\ bugOut = [exc |-> "", bug |-> Bugreport]

ParseNext ==
    \/ \E t \in SeverityTexts : StatusField("severity", t)
    \/ \E t \in FlagTexts : StatusField("done", t)
    \/ \E t \in ArchivedTexts : StatusField("archived", t)
    \/ \E t \in UnarchivedTexts : StatusField("unarchived", t)
    \/ \E t \in BugNumTexts : StatusField("bug_num", t)
    \/ \E f \in DroppedKeys : StatusWithout(f)
    \/ \E c \in AffectsChars : AffectsChar(c)
    \/ ParseStatus

----------------------------------------------------------------------------
(* Properties of _parse_status *)

\* the statuses of a response that lack a key or carry a severity that is
\* none of the SEVERITIES
Malformed(status) ==
    \/ ~ (StatusKeys \subseteq status.keys)
    \/ status.severity \notin DOMAIN SEVERITIES

\* C17 as stated: get_status raises whenever a decoded status lacks a
\* required field or carries a severity outside the seven known levels, and
\* no record it returns has a severity outside them.
C17_MalformedRecordRejected ==
    pc = "returned" =>
        /\ \A k \in 1..Len(responses) : \A j \in 1..Len(responses[k].dict) :
                ~ Malformed(responses[k].dict[j].status)
        /\ \A k \in 1..Len(result.v) : result.v[k].severity \in DOMAIN SEVERITIES

\* C18: every record _parse_status produces has done_by defined exactly
\* when done is true, and then done_by is the raw value of the done field.
C18_DoneByIffDone ==
    (ppc = "parsed" /\ bugOut.exc = "") =>
        /\ {"done", "done_by"} \subseteq bugOut.bug.has
        /\ bugOut.bug.done_by.some <=> bugOut.bug.done
        /\ bugOut.bug.done => bugOut.bug.done_by.v = bugEl.done

C18_Witness ==
    /\ ppc = "parsed" /\ bugOut.exc = ""
    /\ bugEl.done = <<"A", "l">>
    /\ bugOut.bug.done /\ bugOut.bug.done_by = SomeText(<<"A", "l">>)

\* e is the text seg without the whitespace around it
Trimmed(seg, e) ==
    /\ \E p \in 0..Len(seg), q \in 0..Len(seg) :
        /\ e = SubSeq(seg, p + 1, q)
        /\ \A k \in 1..p : seg[k] \in Whitespace
        /\ \A k \in (q + 1)..Len(seg) : seg[k] \in Whitespace
    /\ e # <<>> => (e[1] \notin Whitespace /\ e[Len(e)] \notin Whitespace)

\* the non-empty texts between the commas of t, in order
Segments(t) == SelectSeq(Split(t, ","), LAMBDA f : f # <<>>)

\* C19 as stated: the affects list holds no empty string and no element
\* with whitespace at either end.
C19_AffectsAsStated ==
    (ppc = "parsed" /\ bugOut.exc = "") =>
        \A k \in 1..Len(bugOut.bug.affects) :
            LET e == bugOut.bug.affects[k] IN
            /\ e # <<>>
            /\ e[1] \notin Whitespace /\ e[Len(e)] \notin Whitespace

\* C19: the affects list has one element for each non-empty text between
\* the commas of the affects field, in order: that text without the
\* whitespace around it (the empty string when it is whitespace only).
C19_Affects ==
    (ppc = "parsed" /\ bugOut.exc = "") =>
        /\ Len(bugOut.bug.affects) = Len(Segments(bugEl.affects))
        /\ \A k \in 1..Len(bugOut.bug.affects) :
            /\ Trimmed(Segments(bugEl.affects)[k], bugOut.bug.affects[k])
            /\ "," \notin Range(bugOut.bug.affects[k])

C19_Witness ==
    /\ ppc = "parsed" /\ bugOut.exc = ""
    /\ bugEl.affects = <<"a", ",", " ", "a">>
    /\ bugOut.bug.affects = << <<"a">>, <<"a">> >>

\* Perl's rule for a flag: false for "" and for "0", true for all else
PerlTrue(t) == ~ (t = <<>> \/ (Len(t) = 1 /\ t[1] = "0"))

\* C24: each of done, archived and unarchived of a parsed record is false
\* exactly when the decoded field is "" or "0", and true for every other
\* text, " ", "00" and "0.0" among them.
C24_Flags ==
    (ppc = "parsed" /\ bugOut.exc = "") =>
        /\ bugOut.bug.done = PerlTrue(bugEl.done)
        /\ bugOut.bug.archived = PerlTrue(bugEl.archived)
        /\ bugOut.bug.unarchived = PerlTrue(bugEl.unarchived)
        /\ bugEl.done \in {<<" ">>, <<"0", "0">>, <<"0", ".", "0">>} => bugOut.bug.done
        /\ bugEl.archived = <<"0", "0">> => bugOut.bug.archived
        /\ bugEl.unarchived = <<"0", ".", "0">> => bugOut.bug.unarchived

C24_Witness ==
    /\ ppc = "parsed" /\ bugOut.exc = ""
    /\ bugEl.done = <<" ">> /\ bugOut.bug.done
    /\ bugEl.archived = <<"0", "0">> /\ bugOut.bug.archived
    /\ bugEl.unarchived = <<>> /\ ~ bugOut.bug.unarchived

----------------------------------------------------------------------------
(* The SOAP envelope: _encode_soap_request and _decode_soap_response *)

\* the module's URL and NS
URL == "https://bugs.debian.org/cgi-bin/soap.cgi"
NS == "Debbugs/SOAP/V1"

\* the float whole + 0.5, a value the codec does not encode
PyFloat(whole) == [k |-> "float", s |-> <<>>, n |-> whole, items |-> <<>>, keys |-> <<>>]

\* f"{{{ns}}}local": the namespace is held as one symbol of the text
Tag(ns, local) == <<"{", ns, "}">> \o local

N_Envelope    == <<"E", "n", "v", "e", "l", "o", "p", "e">>
N_Body        == <<"B", "o", "d", "y">>
N_Fault       == <<"F", "a", "u", "l", "t">>
N_faultstring == <<"f", "a", "u", "l", "t", "s", "t", "r", "i", "n", "g">>
N_faultcode   == <<"f", "a", "u", "l", "t", "c", "o", "d", "e">>
N_response    == <<"r", "e", "s", "p", "o", "n", "s", "e">>
N_return      == <<"r", "e", "t", "u", "r", "n">>

\* the local name of each method of the Query API
OpText ==
    [op \in {"get_status", "get_usertag", "get_bug_log", "newest_bugs", "get_bugs"} |->
        CASE op = "get_status" -> <<"g", "e", "t", "_", "s", "t", "a", "t", "u", "s">>
          [] op = "get_usertag" -> <<"g", "e", "t", "_", "u", "s", "e", "r", "t", "a", "g">>
          [] op = "get_bug_log" -> <<"g", "e", "t", "_", "b", "u", "g", "_", "l", "o", "g">>
          [] op = "newest_bugs" -> <<"n", "e", "w", "e", "s", "t", "_", "b", "u", "g", "s">>
          [] op = "get_bugs" -> <<"g", "e", "t", "_", "b", "u", "g", "s">>]

\* f"{{{NS}}}get_status" and the like
MethodName(op) == Tag(NS, OpText[op])

\* the outcome of a call: the value returned, or the exception raised and
\* its message
Returns(v) == [exc |-> "", msg |-> <<>>, v |-> v]
Raises(e, msg) == [exc |-> e, msg |-> msg, v |-> PyNone]

Plain(tag, children) == Element(tag, NoAttr, NoAttr, NoText, children)

\* an encoder that leaves out the arguments it cannot encode
_encode_soap_requestLenient(method_name, args) ==
    LET good == SelectSeq(args, LAMBDA x : _encode_value(N_arg, x).exc = "") IN
    Encoded(
        Plain(Tag(SOAPENV, N_Envelope),
              << Plain(Tag(SOAPENV, N_Body),
                       << Plain(method_name,
                                [j \in 1..Len(good) |-> _encode_value(N_arg, good[j]).el]) >>) >>))

\* _encode_soap_request(method_name, args): the root element that
\* ET.tostring writes, or the exception of the first argument that cannot
\* be encoded (the encodingStyle attribute of the root is not held)
_encode_soap_request(method_name, args) ==
    LET subs == [j \in 1..Len(args) |-> _encode_value(N_arg, args[j])] IN
    IF FirstExc(subs) # "" THEN EncodeFails(FirstExc(subs))
    ELSE Encoded(
            Plain(Tag(SOAPENV, N_Envelope),
                  << Plain(Tag(SOAPENV, N_Body),
                           << Plain(method_name,
                                    [j \in 1..Len(args) |-> subs[j].el]) >>) >>))

\* the children of e that carry the tag
Children(e, tag) == SelectSeq(e.children, LAMBDA c : c.tag = tag)

\* the first child of each element of es that has one
FirstChildren(es) ==
    Flatten([j \in 1..Len(es) |->
                IF es[j].children = <<>> THEN <<>> ELSE <<es[j].children[1]>>])

\* the bytes of a response: XML with a root element, or bytes that
\* ET.fromstring does not parse
XmlBytes(root) == [xml |-> TRUE, root |-> root]
NotXml == [xml |-> FALSE, root |-> NoElement]

Unknown == <<"U", "n", "k", "n", "o", "w", "n">>
SoapFault == <<"S", "O", "A", "P", " ", "f", "a", "u", "l", "t", ":", " ">>

\* a lookup that finds no fault
NoFaultFound(root) == <<>>

\* root.find(f"{{{SOAPENV}}}Body/{{{SOAPENV}}}Fault"), as a sequence of at most one element
FaultFound(root) ==
    LET faults == Flatten([j \in 1..Len(Children(root, Tag(SOAPENV, N_Body))) |->
                    Children(Children(root, Tag(SOAPENV, N_Body))[j], Tag(SOAPENV, N_Fault))])
    IN  IF faults = <<>> THEN <<>> ELSE <<faults[1]>>

\* f"SOAP fault: {message}" for the fault element found
FaultMessage(fault) ==
    LET message_el == Children(fault, N_faultstring)
        message == IF message_el = <<>> THEN Unknown
                   ELSE IF message_el[1].text.some THEN message_el[1].text.v
                   ELSE <<"N", "o", "n", "e">>
    IN  SoapFault \o message

\* a decoder that looks up the answer first and the fault only when there
\* is no answer
_decode_soap_responseAnswerFirst(response) ==
    IF ~ response.xml THEN Raises("ParseError", <<>>)
    ELSE LET root   == response.root
             fault  == FaultFound(root)
             answer == FirstChildren(FirstChildren(Children(root, Tag(SOAPENV, N_Body))))
         IN  IF answer # <<>>
             THEN LET r == _decode_value(answer[1]) IN
                  IF r.exc # "" THEN Raises(r.exc, <<>>) ELSE Returns(r.v)
             ELSE IF fault # <<>> THEN Raises("RuntimeError", FaultMessage(fault[1]))
             ELSE Returns(PyNone)

\* _decode_soap_response(response)
_decode_soap_response(response) ==
    IF ~ response.xml THEN Raises("ParseError", <<>>)
    ELSE LET root   == response.root
             fault  == FaultFound(root)
             \* root.find(f"{{{SOAPENV}}}Body/*[1]/*[1]")
             answer == FirstChildren(FirstChildren(Children(root, Tag(SOAPENV, N_Body))))
         IN  IF fault # <<>> THEN Raises("RuntimeError", FaultMessage(fault[1]))
             ELSE IF answer = <<>> THEN Returns(PyNone)
             ELSE LET r == _decode_value(answer[1]) IN
                  IF r.exc # "" THEN Raises(r.exc, <<>>) ELSE Returns(r.v)

\* t.startswith(p)
StartsWith(t, p) == Len(t) >= Len(p) /\ SubSeq(t, 1, Len(p)) = p

TextXml == <<"t", "e", "x", "t", "/", "x", "m", "l">>

\* a test that hands every error body to the decoder
IsSoapFaultAlways(ctype) == TRUE

\* e.headers.get("Content-Type", "").startswith("text/xml")
IsSoapFault(ctype) == StartsWith(IF ctype.some THEN ctype.v ELSE <<>>, TextXml)


----------------------------------------------------------------------------
(* The Query API: what each operation makes of the value of its call *)

\* the text of each key _parse_status reads
KeyText ==
    [key \in StatusKeys |->
        CASE key = "originator" -> <<"o", "r", "i", "g", "i", "n", "a", "t", "o", "r">>
          [] key = "subject" -> <<"s", "u", "b", "j", "e", "c", "t">>
          [] key = "msgid" -> <<"m", "s", "g", "i", "d">>
          [] key = "package" -> <<"p", "a", "c", "k", "a", "g", "e">>
          [] key = "severity" -> <<"s", "e", "v", "e", "r", "i", "t", "y">>
          [] key = "owner" -> <<"o", "w", "n", "e", "r">>
          [] key = "summary" -> <<"s", "u", "m", "m", "a", "r", "y">>
          [] key = "location" -> <<"l", "o", "c", "a", "t", "i", "o", "n">>
          [] key = "source" -> <<"s", "o", "u", "r", "c", "e">>
          [] key = "pending" -> <<"p", "e", "n", "d", "i", "n", "g">>
          [] key = "forwarded" -> <<"f", "o", "r", "w", "a", "r", "d", "e", "d">>
          [] key = "found_versions" -> <<"f", "o", "u", "n", "d", "_", "v", "e", "r", "s", "i", "o", "n", "s">>
          [] key = "fixed_versions" -> <<"f", "i", "x", "e", "d", "_", "v", "e", "r", "s", "i", "o", "n", "s">>
          [] key = "date" -> <<"d", "a", "t", "e">>
          [] key = "log_modified" -> <<"l", "o", "g", "_", "m", "o", "d", "i", "f", "i", "e", "d">>
          [] key = "tags" -> <<"t", "a", "g", "s">>
          [] key = "done" -> <<"d", "o", "n", "e">>
          [] key = "archived" -> <<"a", "r", "c", "h", "i", "v", "e", "d">>
          [] key = "unarchived" -> <<"u", "n", "a", "r", "c", "h", "i", "v", "e", "d">>
          [] key = "bug_num" -> <<"b", "u", "g", "_", "n", "u", "m">>
          [] key = "mergedwith" -> <<"m", "e", "r", "g", "e", "d", "w", "i", "t", "h">>
          [] key = "blockedby" -> <<"b", "l", "o", "c", "k", "e", "d", "b", "y">>
          [] key = "blocks" -> <<"b", "l", "o", "c", "k", "s">>
          [] key = "affects" -> <<"a", "f", "f", "e", "c", "t", "s">>]

\* the text of each known severity
SeverityText ==
    [sev \in DOMAIN SEVERITIES |->
        CASE sev = "critical" -> <<"c", "r", "i", "t", "i", "c", "a", "l">>
          [] sev = "grave" -> <<"g", "r", "a", "v", "e">>
          [] sev = "serious" -> <<"s", "e", "r", "i", "o", "u", "s">>
          [] sev = "important" -> <<"i", "m", "p", "o", "r", "t", "a", "n", "t">>
          [] sev = "normal" -> <<"n", "o", "r", "m", "a", "l">>
          [] sev = "minor" -> <<"m", "i", "n", "o", "r">>
          [] sev = "wishlist" -> <<"w", "i", "s", "h", "l", "i", "s", "t">>]
N_header      == <<"h", "e", "a", "d", "e", "r">>
N_body        == <<"b", "o", "d", "y">>
N_msg_num     == <<"m", "s", "g", "_", "n", "u", "m">>
N_attachments == <<"a", "t", "t", "a", "c", "h", "m", "e", "n", "t", "s">>

\* d[key] for a dict d and a text key, as a sequence of at most one value
Lookup(d, key) ==
    LET at == {j \in 1..Len(d.keys) : d.keys[j] = PyStr(key)} IN
    IF at = {} THEN <<>> ELSE <<d.items[CHOOSE j \in at : TRUE]>>

IsStr(x) == x.k \in {"str", "b64text"}

\* int(x) (the text of a base64 value is not drawn as a number)
IntOf(x) ==
    CASE x.k = "str" ->
            IF ParseInt(x.s).ok THEN Returns(PyInt(ParseInt(x.s).n))
            ELSE Raises("ValueError", <<>>)
      [] x.k \in {"int", "bool", "float"} -> Returns(PyInt(x.n))
      [] x.k \in {"list", "dict", "none"} -> Raises("TypeError", <<>>)

\* iter(v): the items a loop over v meets, or the TypeError of a value that
\* is not iterable
Iter(v) ==
    CASE v.k = "list" -> [exc |-> "", items |-> v.items]
      [] v.k = "dict" -> [exc |-> "", items |-> v.keys]
      [] v.k = "str"  -> [exc |-> "", items |-> [j \in 1..Len(v.s) |-> PyStr(<<v.s[j]>>)]]
      [] OTHER        -> [exc |-> "TypeError", items |-> <<>>]

\* list(map(int, v))
MapInt(v) ==
    LET it == Iter(v)
        rs == [j \in 1..Len(it.items) |-> IntOf(it.items[j])]
    IN  IF it.exc # "" THEN Raises(it.exc, <<>>)
        ELSE IF FirstExc(rs) # "" THEN Raises(FirstExc(rs), <<>>)
        ELSE Returns(PyList([j \in 1..Len(rs) |-> rs[j].v]))

\* get_usertag, line 269: {k: list(map(int, v)) for k, v in result.items()}
UsertagOf(v) ==
    IF v.k # "dict" THEN Raises("AttributeError", <<>>)
    ELSE LET rs == [j \in 1..Len(v.items) |-> MapInt(v.items[j])] IN
         IF FirstExc(rs) # "" THEN Raises(FirstExc(rs), <<>>)
         ELSE Returns(PyDict(v.keys, [j \in 1..Len(rs) |-> rs[j].v]))

\* get_bug_log, lines 298-320: the buglog made of one item (its parsed
\* "message" is not held)
Buglog(item) ==
    IF item.k # "dict" THEN Raises("TypeError", <<>>)
    ELSE LET header  == Lookup(item, N_header)
             body    == Lookup(item, N_body)
             msg_num == Lookup(item, N_msg_num)
         IN  IF header = <<>> \/ body = <<>> \/ msg_num = <<>>
             THEN Raises("KeyError", <<>>)
             ELSE IF IntOf(msg_num[1]).exc # ""
             THEN Raises(IntOf(msg_num[1]).exc, <<>>)
             ELSE IF ~ IsStr(header[1]) \/ ~ IsStr(body[1])
             THEN Raises("AttributeError", <<>>)    \* header.encode()
             ELSE Returns(PyDict(
                    <<PyStr(N_header), PyStr(N_body), PyStr(N_msg_num), PyStr(N_attachments)>>,
                    <<header[1], body[1], IntOf(msg_num[1]).v, PyList(<<>>)>>))

\* get_bug_log, lines 296-321
BuglogsOf(v) ==
    LET it == Iter(v)
        rs == [j \in 1..Len(it.items) |-> Buglog(it.items[j])]
    IN  IF it.exc # "" THEN Raises(it.exc, <<>>)
        ELSE IF FirstExc(rs) # "" THEN Raises(FirstExc(rs), <<>>)
        ELSE Returns(PyList([j \in 1..Len(rs) |-> rs[j].v]))

\* the text under a key of a decoded status ("" when there is none)
TextOf(d, key) == IF Lookup(d, key) = <<>> THEN <<>> ELSE Lookup(d, key)[1].s

\* the severity of a decoded status; a text that is none of the SEVERITIES
\* is held as "other"
SeverityName(t) ==
    IF \E sev \in DOMAIN SEVERITIES : SeverityText[sev] = t
    THEN CHOOSE sev \in DOMAIN SEVERITIES : SeverityText[sev] = t
    ELSE "other"

\* a decoded dict as _parse_status reads it
BugElOf(d) ==
    [keys |-> {key \in StatusKeys : Lookup(d, KeyText[key]) # <<>>},
     severity |-> SeverityName(TextOf(d, KeyText["severity"])),
     done |-> TextOf(d, KeyText["done"]),
     archived |-> TextOf(d, KeyText["archived"]),
     unarchived |-> TextOf(d, KeyText["unarchived"]),
     bug_num |-> TextOf(d, KeyText["bug_num"]),
     affects |-> TextOf(d, KeyText["affects"])]

\* get_status, lines 241-242: _parse_status of each of result_dict.values()
\* in turn; bug_el[field] of a value that is no dict is a TypeError
StatusesOf(v) ==
    IF v.k # "dict" THEN [exc |-> "AttributeError", bugs |-> <<>>]
    ELSE LET rs == [j \in 1..Len(v.items) |->
                        IF v.items[j].k # "dict"
                        THEN [exc |-> "TypeError", bug |-> Bugreport]
                        ELSE _parse_status(BugElOf(v.items[j]))]
         IN  IF FirstExc(rs) # "" THEN [exc |-> FirstExc(rs), bugs |-> <<>>]
             ELSE [exc |-> "", bugs |-> [j \in 1..Len(rs) |-> rs[j].bug]]

\* what newest_bugs, get_bugs, get_usertag and get_bug_log return for the
\* value of their call
ResultOf(op, v) ==
    CASE op \in {"newest_bugs", "get_bugs"} -> MapInt(v)
      [] op = "get_usertag" -> UsertagOf(v)
      [] op = "get_bug_log" -> BuglogsOf(v)

\* a get_usertag that hands its tags over as one list
ArgsOfPacked(op, params) ==
    CASE op = "get_usertag" ->
            <<params[1], IF params[2].k = "none" THEN PyList(<<>>) ELSE params[2]>>
      [] op \in {"get_bug_log", "newest_bugs", "get_bugs"} -> <<params[1]>>

\* the arguments each operation hands to _soap_client_call: line 268
\* (email, *tags; tags None is []), lines 295, 341 and 383
ArgsOf(op, params) ==
    CASE op = "get_usertag" ->
            <<params[1]>> \o (IF params[2].k = "none" THEN <<>> ELSE params[2].items)
      [] op \in {"get_bug_log", "newest_bugs", "get_bugs"} -> <<params[1]>>

----------------------------------------------------------------------------
(* _soap_client_call and the Query API at work: the calls under way, the
   configuration they read and the answers of the server *)

MaxRedirects == 1

\* the threads that call the Query API
Calls == {1, 2}

Proxies == {"http://proxy-a:3128", "http://proxy-b:3128"}
Locations == {URL, "http://localhost:8080/soap.cgi"}
\* where a redirecting server sends the client
Moved == "https://bugs.debian.org/moved"

\* ---- the arguments drawn for the operations ----
T_a == <<"a">>
T_src == <<"s", "r", "c">>
T_bugs == <<"b", "u", "g", "s">>

Start(op, params) == [op |-> op, params |-> params]

\* calls whose arguments the codec encodes
GoodStarts ==
    {Start("get_status", <<PyInt(1)>>),
     Start("get_status", <<PyList(<<>>)>>),
     Start("get_status", <<PyList(<<PyInt(1), PyInt(2)>>)>>),
     Start("get_usertag", <<PyStr(T_a), PyNone>>),
     Start("get_usertag", <<PyStr(T_a), PyList(<<PyStr(T_src)>>)>>),
     Start("get_usertag", <<PyStr(T_a), PyList(<<PyStr(T_src), PyStr(T_bugs)>>)>>),
     Start("get_bug_log", <<PyInt(1)>>),
     Start("newest_bugs", <<PyInt(2)>>),
     Start("get_bugs", <<PyDict(<<PyStr(T_src)>>, <<PyStr(T_a)>>)>>)}
\* calls with None or a float among their arguments, at some depth
BadStarts ==
    {Start("get_status", <<PyNone>>),
     Start("get_usertag", <<PyStr(T_a), PyList(<<PyStr(T_src), PyFloat(1)>>)>>),
     Start("newest_bugs", <<PyFloat(1)>>),
     Start("get_bugs", <<PyDict(<<PyStr(T_src), PyStr(T_bugs)>>,
                                <<PyStr(T_a), PyList(<<PyInt(1), PyList(<<PyNone>>)>>)>>)>>)}
Starts == GoodStarts \cup BadStarts

\* ---- the bodies drawn for the answers of the server ----
Envelope(kids) ==
    XmlBytes(Plain(Tag(SOAPENV, N_Envelope), << Plain(Tag(SOAPENV, N_Body), kids) >>))
\* the element of the method's response around a return value
Response(kids) == Plain(Tag(NS, N_response), kids)
\* a value as the server writes it, read by ET.fromstring
Wire(name, v) == OverTheWire(_encode_value(name, v).el)
Leaf(name, text) == Element(name, NoAttr, NoAttr, SomeText(text), <<>>)
Fault(kids) == Plain(Tag(SOAPENV, N_Fault), kids)

Boom == <<"b", "o", "o", "m">>

B_list == Envelope(<< Response(<< Wire(N_return, PyList(<<PyInt(1), PyInt(2)>>)) >>) >>)
B_text == Envelope(<< Response(<< Wire(N_return, PyStr(T_a)) >>) >>)
B_struct ==
    Envelope(<< Response(<< Plain(N_return, << Wire(T_a, PyList(<<PyInt(1)>>)) >>) >>) >>)
B_emptyStruct == Envelope(<< Response(<< Plain(N_return, <<>>) >>) >>)
B_logs ==
    Envelope(<< Response(<<
        Element(N_return, WireAttr(QName(SOAPENC, T_Array)), NoAttr, NoText,
                << Plain(N_item, << Wire(N_header, PyStr(T_a)), Wire(N_body, PyStr(T_src)),
                                    Wire(N_msg_num, PyInt(1)) >>) >>) >>) >>)
B_double ==
    Envelope(<< Response(<<
        Element(N_return, WireAttr(QName(XSD, <<"d", "o", "u", "b", "l", "e">>)), NoAttr, SomeText(<<"1">>), <<>>) >>) >>)
B_noReturn == Envelope(<< Response(<<>>) >>)
B_noResponse == Envelope(<<>>)
B_fault == Envelope(<< Fault(<< Leaf(N_faultcode, T_a), Leaf(N_faultstring, Boom) >>) >>)
B_faultNoString == Envelope(<< Fault(<< Leaf(N_faultcode, T_a) >>) >>)
B_faultAndValue ==
    Envelope(<< Response(<< Wire(N_return, PyStr(T_a)) >>),
                Fault(<< Leaf(N_faultstring, Boom) >>) >>)

Bodies ==
    {B_list, B_text, B_struct, B_emptyStruct, B_logs, B_double, B_noReturn,
     B_noResponse, B_fault, B_faultNoString, B_faultAndValue, NotXml}
\* the bodies drawn for an answer with an error status
ErrorBodies == {B_fault, B_list, NotXml}
\* the Content-Type headers drawn for it (NoText: no such header)
ContentTypes ==
    {NoText, SomeText(TextXml), SomeText(<<"t", "e", "x", "t", "/", "x", "m", "l", ";", " ", "c", "h", "a", "r", "s", "e", "t", "=", "u", "t", "f", "-", "8">>), SomeText(<<"t", "e", "x", "t", "/", "h", "t", "m", "l">>)}

\* ---- the state ----
NoAnswer == [kind |-> "", ctype |-> NoText, body |-> NotXml]
Request(verb, url, body) == [verb |-> verb, url |-> url, body |-> body]

\* a thread that is in no call; of a call: the operation and its
\* parameters, the locals of get_status, the parameters and locals of
\* _soap_client_call (use, http, https: the handlers built; request:
\* encoded_request; response: encoded_response), the requests the opener of
\* this _soap_client_call put on the network (sent), the last answer to
\* them, what _soap_client_call returned
\* or raised (ret) and what the operation did (out; the list get_status
\* returns is in bugs).  seen holds the configurations that existed since
\* the call first read the configuration, until it has read all it uses.
NoCall ==
    [pc |-> "idle", op |-> "", params |-> <<>>, numbers |-> <<>>, i |-> 0,
     bugs |-> <<>>, method |-> <<>>, args |-> <<>>, use |-> FALSE, http |-> "",
     https |-> "", request |-> NoElement, url |-> "", sent |-> <<>>,
     answer |-> NoAnswer, response |-> NotXml, ret |-> Returns(PyNone),
     out |-> Returns(PyNone), seen |-> {}]

\* numbers = [nrs] if nrs is neither list nor tuple, else list(nrs)
NumbersOfValue(x) == IF x.k = "list" THEN x.items ELSE <<x>>

\* the positions between the first and the last read of _soap_client_kwargs
Reading == {"http", "https", "encode", "open"}

\* every call that is between its reads sees the configuration change
Noted(t, config) ==
    [c \in Calls |-> IF t[c].pc \in Reading
                     THEN [t[c] EXCEPT !.seen = @ \cup {config}] ELSE t[c]]

\* a setter that takes the proxy entry away when it is handed the proxy
\* already set
set_soap_proxyToggles(proxy_arg) ==
    /\ kwargs' = IF "proxy" \in kwargs.keys /\ kwargs.proxy = proxy_arg
                 THEN [kwargs EXCEPT !.keys = @ \ {"proxy"}, !.proxy = ""]
                 ELSE [kwargs EXCEPT !.keys = @ \cup {"proxy"}, !.proxy = proxy_arg]
    /\ th' = Noted(th, kwargs')
    /\ UNCHANGED <<statusVars, orderVars, codecVars, parseVars, decodeVars>>

\* set_soap_proxy(proxy_arg)
set_soap_proxy(proxy_arg) ==
    /\ kwargs' = [kwargs EXCEPT !.keys = @ \cup {"proxy"}, !.proxy = proxy_arg]
    /\ th' = Noted(th, kwargs')
    /\ UNCHANGED <<statusVars, orderVars, codecVars, parseVars, decodeVars>>

\* a setter that also redirects the requests of the calls under way
set_soap_locationRebinds(url) ==
    /\ kwargs' = [kwargs EXCEPT !.location = url]
    /\ th' = [c \in Calls |->
                [Noted(th, kwargs')[c] EXCEPT
                    !.url = url,
                    !.sent = [k \in 1..Len(@) |-> [@[k] EXCEPT !.url = url]]]]
    /\ UNCHANGED <<statusVars, orderVars, codecVars, parseVars, decodeVars>>

\* set_soap_location(url)
set_soap_location(url) ==
    /\ kwargs' = [kwargs EXCEPT !.location = url]
    /\ th' = Noted(th, kwargs')
    /\ UNCHANGED <<statusVars, orderVars, codecVars, parseVars, decodeVars>>

\* an operation of the Query API is entered: get_status, lines 229-237;
\* the others hand their arguments to _soap_client_call at once
Enter(c, op, params) ==
    /\ th[c].pc = "idle"
    /\ th' = [th EXCEPT ![c] =
                IF op = "get_status"
                THEN [NoCall EXCEPT !.pc = "loop", !.op = op, !.params = params,
                                    !.numbers = NumbersOfValue(params[1])]
                ELSE [NoCall EXCEPT !.pc = "call", !.op = op, !.params = params,
                                    !.method = MethodName(op),
                                    !.args = ArgsOf(op, params)]]
    /\ UNCHANGED kwargs
    /\ UNCHANGED <<statusVars, orderVars, codecVars, parseVars, decodeVars>>

\* get_status, lines 238-240 and 243: the next slice is handed to
\* _soap_client_call, or bugs is returned
NextBatch(c) ==
    /\ th[c].pc = "loop"
    /\ th' = [th EXCEPT ![c] =
                IF InRange(th[c].numbers, th[c].i)
                THEN [@ EXCEPT !.pc = "call",
                               !.method = MethodName("get_status"),
                               !.args = <<PyList(Slice(th[c].numbers, th[c].i))>>]
                ELSE [@ EXCEPT !.pc = "returned"]]
    /\ UNCHANGED kwargs
    /\ UNCHANGED <<statusVars, orderVars, codecVars, parseVars, decodeVars>>

\* a call left by an exception: nothing catches it on the way out
Raised(t, e) == [t EXCEPT !.pc = "raised", !.ret = e, !.out = e, !.seen = {}]

\* lines 517-518: "proxy" in _soap_client_kwargs
CheckProxy(c) ==
    /\ th[c].pc = "call"
    /\ th' = [th EXCEPT ![c] =
                [@ EXCEPT !.use = "proxy" \in kwargs.keys,
                          !.http = "", !.https = "", !.url = "",
                          !.request = NoElement, !.sent = <<>>,
                          !.answer = NoAnswer, !.response = NotXml,
                          !.ret = Returns(PyNone),
                          !.seen = {kwargs},
                          !.pc = IF "proxy" \in kwargs.keys THEN "http" ELSE "encode"]]
    /\ UNCHANGED kwargs
    /\ UNCHANGED <<statusVars, orderVars, codecVars, parseVars, decodeVars>>

\* line 522: "http": _soap_client_kwargs["proxy"]
ReadHttpProxy(c) ==
    /\ th[c].pc = "http"
    /\ th' = [th EXCEPT ![c] =
                IF "proxy" \in kwargs.keys
                THEN [@ EXCEPT !.http = kwargs.proxy, !.pc = "https"]
                ELSE Raised(@, Raises("KeyError", <<>>))]
    /\ UNCHANGED kwargs
    /\ UNCHANGED <<statusVars, orderVars, codecVars, parseVars, decodeVars>>

\* line 523: "https": _soap_client_kwargs["proxy"]
ReadHttpsProxy(c) ==
    /\ th[c].pc = "https"
    /\ th' = [th EXCEPT ![c] =
                IF "proxy" \in kwargs.keys
                THEN [@ EXCEPT !.https = kwargs.proxy, !.pc = "encode"]
                ELSE Raised(@, Raises("KeyError", <<>>))]
    /\ UNCHANGED kwargs
    /\ UNCHANGED <<statusVars, orderVars, codecVars, parseVars, decodeVars>>

\* lines 527-529: the opener is built and the request encoded
EncodeRequest(c) ==
    /\ th[c].pc = "encode"
    /\ LET r == _encode_soap_request(th[c].method, th[c].args) IN
       th' = [th EXCEPT ![c] =
                IF r.exc # "" THEN Raised(@, Raises(r.exc, <<>>))
                ELSE [@ EXCEPT !.request = r.el, !.pc = "open"]]
    /\ UNCHANGED kwargs
    /\ UNCHANGED <<statusVars, orderVars, codecVars, parseVars, decodeVars>>

\* a Request built with the URL the module was loaded with
ReadLocationDefault(c) ==
    /\ th[c].pc = "open"
    /\ th' = [th EXCEPT ![c] = [@ EXCEPT !.url = URL, !.pc = "send"]]
    /\ UNCHANGED kwargs
    /\ UNCHANGED <<statusVars, orderVars, codecVars, parseVars, decodeVars>>

\* lines 534-542: the Request is built, url=_soap_client_kwargs["location"]
ReadLocation(c) ==
    /\ th[c].pc = "open"
    /\ th' = [th EXCEPT ![c] =
                IF "location" \in kwargs.keys
                THEN [@ EXCEPT !.url = kwargs.location, !.pc = "send"]
                ELSE Raised(@, Raises("KeyError", <<>>))]
    /\ UNCHANGED kwargs
    /\ UNCHANGED <<statusVars, orderVars, codecVars, parseVars, decodeVars>>

\* a request kept in one place for all the calls: the one encoded last
\* by the first thread
RequestShared(t, c) == t[1].request

\* the request the call sends: its own encoded_request
RequestOf(t, c) == t[c].request

\* a client that keeps the URL it posted to as the location of later calls
PostRemembers(c) ==
    /\ th[c].pc = "send"
    /\ th' = [th EXCEPT ![c] =
                [@ EXCEPT !.sent = Append(@, Request("POST", th[c].url, RequestOf(th, c))),
                          !.seen = {},
                          !.pc = "wait"]]
    /\ kwargs' = [kwargs EXCEPT !.location = th[c].url]
    /\ UNCHANGED <<statusVars, orderVars, codecVars, parseVars, decodeVars>>

\* line 533: opener.open sends the POST
Post(c) ==
    /\ th[c].pc = "send"
    /\ th' = [th EXCEPT ![c] =
                [@ EXCEPT !.sent = Append(@, Request("POST", th[c].url, RequestOf(th, c))),
                          !.seen = {},
                          !.pc = "wait"]]
    /\ UNCHANGED kwargs
    /\ UNCHANGED <<statusVars, orderVars, codecVars, parseVars, decodeVars>>

\* the server answers with a success status: line 544, f.read()
AnswerOK(c, body) ==
    /\ th[c].pc = "wait"
    /\ th' = [th EXCEPT ![c] =
                [@ EXCEPT !.answer = [kind |-> "ok", ctype |-> SomeText(TextXml), body |-> body],
                          !.response = body,
                          !.pc = "decode"]]
    /\ UNCHANGED kwargs
    /\ UNCHANGED <<statusVars, orderVars, codecVars, parseVars, decodeVars>>

\* the requests of a call that follow a redirect
Followed(t) == SelectSeq(t.sent, LAMBDA r : r.verb = "GET")

\* the server answers the POST with 301, 302 or 303: the opener that
\* build_opener made (line 527) follows it with a GET that has no body
AnswerRedirect(c) ==
    /\ th[c].pc = "wait"
    /\ Len(Followed(th[c])) < MaxRedirects
    /\ th' = [th EXCEPT ![c] =
                [@ EXCEPT !.answer = [kind |-> "redirect", ctype |-> NoText, body |-> NotXml],
                          !.sent = Append(@, Request("GET", Moved, NoElement))]]
    /\ UNCHANGED kwargs
    /\ UNCHANGED <<statusVars, orderVars, codecVars, parseVars, decodeVars>>

\* the server answers with an error status: lines 545-550
AnswerHTTPError(c, ctype, body) ==
    /\ th[c].pc = "wait"
    /\ th' = [th EXCEPT ![c] =
                IF IsSoapFault(ctype)
                THEN [@ EXCEPT !.answer = [kind |-> "httperror", ctype |-> ctype, body |-> body],
                               !.response = body,
                               !.pc = "decode"]
                ELSE Raised([@ EXCEPT !.answer = [kind |-> "httperror", ctype |-> ctype,
                                                  body |-> body]],
                            Raises("HTTPError", <<>>))]
    /\ UNCHANGED kwargs
    /\ UNCHANGED <<statusVars, orderVars, codecVars, parseVars, decodeVars>>

\* a client that sends its request again when no answer comes
AnswerURLErrorRetried(c) ==
    /\ th[c].pc = "wait"
    /\ th' = [th EXCEPT ![c] =
                [@ EXCEPT !.answer = [kind |-> "urlerror", ctype |-> NoText, body |-> NotXml],
                          !.sent = Append(@, Request("POST", th[c].url, th[c].request))]]
    /\ UNCHANGED kwargs
    /\ UNCHANGED <<statusVars, orderVars, codecVars, parseVars, decodeVars>>

\* no answer comes: opener.open raises urllib.error.URLError
AnswerURLError(c) ==
    /\ th[c].pc = "wait"
    /\ th' = [th EXCEPT ![c] =
                Raised([@ EXCEPT !.answer = [kind |-> "urlerror", ctype |-> NoText,
                                             body |-> NotXml]],
                       Raises("URLError", <<>>))]
    /\ UNCHANGED kwargs
    /\ UNCHANGED <<statusVars, orderVars, codecVars, parseVars, decodeVars>>

\* line 553: return _decode_soap_response(encoded_response)
DecodeResponse(c) ==
    /\ th[c].pc = "decode"
    /\ LET r == _decode_soap_response(th[c].response) IN
       th' = [th EXCEPT ![c] =
                IF r.exc # "" THEN Raised(@, r)
                ELSE [@ EXCEPT !.ret = r, !.pc = "result"]]
    /\ UNCHANGED kwargs
    /\ UNCHANGED <<statusVars, orderVars, codecVars, parseVars, decodeVars>>

\* the operation takes the value of its call: get_status, lines 241-242,
\* parses the records and goes on with its loop; the others convert the
\* value and return
Finish(c) ==
    /\ th[c].pc = "result"
    /\ th' = [th EXCEPT ![c] =
                IF th[c].op = "get_status"
                THEN LET r == StatusesOf(th[c].ret.v) IN
                     IF r.exc # ""
                     THEN [@ EXCEPT !.pc = "raised", !.out = Raises(r.exc, <<>>)]
                     ELSE [@ EXCEPT !.pc = "loop",
                                    !.bugs = Extend(th[c].bugs, r.bugs),
                                    !.i = NextIndex(th[c].i)]
                ELSE LET r == ResultOf(th[c].op, th[c].ret.v) IN
                     [@ EXCEPT !.pc = IF r.exc # "" THEN "raised" ELSE "returned",
                               !.out = r]]
    /\ UNCHANGED kwargs
    /\ UNCHANGED <<statusVars, orderVars, codecVars, parseVars, decodeVars>>

\* the caller has its result: the thread is free for another call
Leave(c) ==
    /\ th[c].pc \in {"returned", "raised"}
    /\ th' = [th EXCEPT ![c] = NoCall]
    /\ UNCHANGED kwargs
    /\ UNCHANGED <<statusVars, orderVars, codecVars, parseVars, decodeVars>>

\* _soap_client_kwargs = {"location": URL}
CallInit ==
    /\ kwargs = [keys |-> {"location"}, proxy |-> "", location |-> URL]
    /\ th = [c \in Calls |-> NoCall]

\* one thread calls the Query API while the configuration is changed
CallNext ==
    \/ \E p \in Proxies : set_soap_proxy(p)
    \/ \E u \in Locations : set_soap_location(u)
    \/ \E s \in Starts : Enter(1, s.op, s.params)
    \/ NextBatch(1)
    \/ CheckProxy(1)
    \/ ReadHttpProxy(1)
    \/ ReadHttpsProxy(1)
    \/ EncodeRequest(1)
    \/ ReadLocation(1)
    \/ Post(1)
    \/ \E body \in Bodies : AnswerOK(1, body)
    \/ AnswerRedirect(1)
    \/ \E ctype \in ContentTypes, body \in ErrorBodies : AnswerHTTPError(1, ctype, body)
    \/ AnswerURLError(1)
    \/ DecodeResponse(1)
    \/ Finish(1)
    \/ Leave(1)

\* ---- two threads call the Query API at the same time ----
ThreadStarts ==
    {Start("get_status", <<PyInt(1)>>),
     Start("get_bugs", <<PyDict(<<PyStr(T_src)>>, <<PyStr(T_a)>>)>>),
     Start("get_bug_log", <<PyInt(1)>>),
     Start("newest_bugs", <<PyFloat(1)>>)}
ThreadBodies == {B_list, B_logs, B_emptyStruct, B_fault, B_noReturn}

ThreadsNext ==
    \/ \E p \in {"http://proxy-a:3128"} : set_soap_proxy(p)
    \/ \E c \in Calls, s \in ThreadStarts : Enter(c, s.op, s.params)
    \/ \E c \in Calls : NextBatch(c)
    \/ \E c \in Calls : CheckProxy(c)
    \/ \E c \in Calls : ReadHttpProxy(c)
    \/ \E c \in Calls : ReadHttpsProxy(c)
    \/ \E c \in Calls : EncodeRequest(c)
    \/ \E c \in Calls : ReadLocation(c)
    \/ \E c \in Calls : Post(c)
    \/ \E c \in Calls, body \in ThreadBodies : AnswerOK(c, body)
    \/ \E c \in Calls : AnswerHTTPError(c, SomeText(TextXml), B_fault)
    \/ \E c \in Calls : AnswerURLError(c)
    \/ \E c \in Calls : DecodeResponse(c)
    \/ \E c \in Calls : Finish(c)
    \/ \E c \in Calls : Leave(c)

----------------------------------------------------------------------------
(* Properties of _soap_client_call and the Query API *)

RECURSIVE HasUnsupported(_)
\* v holds, at some depth, a value that is no string, integer, boolean,
\* sequence or mapping
HasUnsupported(v) ==
    \/ v.k \in {"none", "float"}
    \/ \E j \in 1..Len(v.items) : HasUnsupported(v.items[j])
    \/ \E j \in 1..Len(v.keys) : HasUnsupported(v.keys[j])

\* the positions of a call before its request is encoded
BeforeEncoding == {"idle", "loop", "call", "http", "https", "encode"}

\* C11: a SOAP call with an argument that holds, at any depth, a value that
\* is no string, integer, boolean, sequence or mapping raises ValueError,
\* and no HTTP request is sent for it.
C11_EncodingErrorBeforeNetwork ==
    \A c \in Calls :
        (/\ th[c].pc \notin BeforeEncoding
         /\ \E j \in 1..Len(th[c].args) : HasUnsupported(th[c].args[j])) =>
            /\ th[c].pc = "raised"
            /\ th[c].out.exc = "ValueError"
            /\ th[c].sent = <<>>

C11_Witness ==
    /\ th[1].pc = "raised"
    /\ th[1].op = "get_bugs"
    /\ th[1].args[1].items[2] = PyList(<<PyInt(1), PyList(<<PyNone>>)>>)
    /\ th[1].out.exc = "ValueError"
    /\ th[1].sent = <<>>

\* the texts of the faultstring elements of the Fault elements of the Body
\* elements of a response
FaultStrings(body) ==
    IF ~ body.xml THEN {}
    ELSE { IF f.text.some THEN f.text.v ELSE <<>> :
            f \in UNION { UNION { { s \in Range(fl.children) : s.tag = N_faultstring } :
                                    fl \in { x \in Range(bd.children) :
                                                x.tag = Tag(SOAPENV, N_Fault) } } :
                          bd \in { x \in Range(body.root.children) :
                                    x.tag = Tag(SOAPENV, N_Body) } } }

\* sub occurs in text
Contains(text, sub) ==
    \E k \in 0..(Len(text) - Len(sub)) : SubSeq(text, k + 1, k + Len(sub)) = sub

\* the answer of the server reached _decode_soap_response: its status is
\* a success, or an error with a Content-Type that starts with text/xml
Handed(t) ==
    \/ t.answer.kind = "ok"
    \/ /\ t.answer.kind = "httperror"
       /\ t.answer.ctype.some
       /\ StartsWith(t.answer.ctype.v, TextXml)

\* C12: when the response body that is decoded holds a Fault element with a
\* faultstring, the operation raises RuntimeError with a message that
\* contains the faultstring, and returns no value.
C12_FaultRaises ==
    \A c \in Calls :
        (Handed(th[c]) /\ FaultStrings(th[c].answer.body) # {}) =>
            /\ th[c].pc \in {"decode", "raised"}
            /\ th[c].pc = "raised" =>
                /\ th[c].out.exc = "RuntimeError"
                /\ \E fs \in FaultStrings(th[c].answer.body) : Contains(th[c].out.msg, fs)

C12_Witness ==
    /\ th[1].pc = "raised"
    /\ th[1].op = "get_usertag"
    /\ th[1].answer = [kind |-> "httperror", ctype |-> SomeText(TextXml), body |-> B_fault]
    /\ th[1].out.exc = "RuntimeError"
    /\ Contains(th[1].out.msg, Boom)

\* the Fault elements that are children of a Body element of a response
FaultsOf(body) ==
    IF ~ body.xml THEN {}
    ELSE UNION { { x \in Range(bd.children) : x.tag = Tag(SOAPENV, N_Fault) } :
                 bd \in { x \in Range(body.root.children) : x.tag = Tag(SOAPENV, N_Body) } }

\* C30: whenever the response body that is decoded holds a Fault element,
\* _decode_soap_response raises RuntimeError and returns no value, also when
\* the body holds a response value as well; when the fault has no
\* faultstring the message is "SOAP fault: Unknown".
C30_FaultBeforeValue ==
    \A c \in Calls :
        (Handed(th[c]) /\ FaultsOf(th[c].answer.body) # {}) =>
            /\ th[c].pc \in {"decode", "raised"}
            /\ _decode_soap_response(th[c].answer.body).exc = "RuntimeError"
            /\ th[c].pc = "raised" =>
                /\ th[c].out.exc = "RuntimeError"
                /\ th[c].ret.exc = "RuntimeError"
                /\ FaultStrings(th[c].answer.body) = {} =>
                        th[c].out.msg = SoapFault \o Unknown

\* a body with a response value and a Fault has been decoded
C30_Witness ==
    /\ th[1].pc = "raised"
    /\ th[1].answer.kind = "ok"
    /\ th[1].answer.body = B_faultAndValue
    /\ FirstChildren(FirstChildren(Children(B_faultAndValue.root, Tag(SOAPENV, N_Body)))) # <<>>
    /\ th[1].out = Raises("RuntimeError", SoapFault \o Boom)

\* the positions of a call after the answer to its request has come
Answered == {"decode", "result", "loop", "returned", "raised"}

\* C13: an error status hands its body to _decode_soap_response exactly
\* when the Content-Type starts with text/xml; otherwise the HTTPError, and
\* likewise a URLError, leaves the call as it is, with no value and no fault.
C13_ErrorBodyHandedIffXml ==
    \A c \in Calls :
        /\ (th[c].answer.kind = "httperror" /\ th[c].pc \in Answered) =>
            IF th[c].answer.ctype.some /\ StartsWith(th[c].answer.ctype.v, TextXml)
            THEN /\ th[c].response = th[c].answer.body
                 /\ th[c].pc # "decode" => th[c].ret = _decode_soap_response(th[c].answer.body)
            ELSE /\ th[c].pc = "raised"
                 /\ th[c].out = Raises("HTTPError", <<>>)
                 /\ th[c].response = NotXml
        /\ (th[c].answer.kind = "urlerror" /\ th[c].pc \in Answered) =>
                 /\ th[c].pc = "raised"
                 /\ th[c].out = Raises("URLError", <<>>)
                 /\ th[c].response = NotXml

C13_Witness ==
    /\ th[1].pc = "raised"
    /\ th[1].answer.kind = "httperror"
    /\ th[1].answer.ctype = SomeText(TextXml \o <<";", " ", "c", "h", "a", "r", "s", "e", "t", "=", "u", "t", "f", "-", "8">>)
    /\ th[1].answer.body = B_fault
    /\ th[1].out.exc = "RuntimeError"

\* the positions of a _soap_client_call whose request has been sent
AfterSend == {"wait", "decode", "result"}

\* C14 as stated: a call puts exactly one request on the network, a POST,
\* whatever its outcome.
C14_OneRequestAsStated ==
    \A c \in Calls :
        /\ Len(th[c].sent) <= 1
        /\ th[c].pc \in AfterSend => (Len(th[c].sent) = 1 /\ th[c].sent[1].verb = "POST")

\* C14: a call sends exactly one POST, first and with its encoded request;
\* what follows it are GET requests without body, one for each redirect the
\* opener follows.
C14_OnePost ==
    \A c \in Calls :
        /\ th[c].pc \in {"http", "https", "encode", "open", "send"} => th[c].sent = <<>>
        /\ th[c].pc \in AfterSend => Len(th[c].sent) >= 1
        /\ \A k \in 1..Len(th[c].sent) :
            IF k = 1
            THEN th[c].sent[k] = Request("POST", th[c].url, th[c].request)
            ELSE th[c].sent[k].verb = "GET" /\ th[c].sent[k].body = NoElement

C14_Witness ==
    /\ th[1].pc = "returned"
    /\ th[1].op = "newest_bugs"
    /\ Len(th[1].sent) = 2
    /\ th[1].sent[1].verb = "POST" /\ th[1].sent[2].verb = "GET"
    /\ th[1].out = Returns(PyList(<<PyInt(1), PyInt(2)>>))

\* C15 as stated: the proxy for http, the proxy for https and the URL a
\* call uses are those of one configuration that existed while it read them.
C15_NoTornConfiguration ==
    \A c \in Calls :
        th[c].pc = "send" =>
            \E config \in th[c].seen :
                /\ th[c].use = ("proxy" \in config.keys)
                /\ th[c].use => (th[c].http = config.proxy /\ th[c].https = config.proxy)
                /\ th[c].url = config.location

\* C16: under every interleaving, the POST of a call holds the method name
\* and the encoded arguments of that call and nothing else, and the value
\* the call returns is the one decoded from the answer to it.
C16_CallsDoNotMix ==
    \A c \in Calls :
        /\ \A k \in 1..Len(th[c].sent) :
            th[c].sent[k].verb = "POST" =>
                LET msg == th[c].sent[k].body.children[1].children[1] IN
                /\ Len(th[c].sent[k].body.children) = 1
                /\ Len(th[c].sent[k].body.children[1].children) = 1
                /\ msg.tag = MethodName(th[c].op)
                /\ Len(msg.children) = Len(th[c].args)
                /\ \A j \in 1..Len(th[c].args) :
                        msg.children[j] = _encode_value(N_arg, th[c].args[j]).el
        /\ th[c].pc \in {"result", "returned"} =>
                th[c].ret = _decode_soap_response(th[c].answer.body)
        /\ (th[c].pc = "returned" /\ th[c].op # "get_status") =>
                th[c].out = ResultOf(th[c].op, _decode_soap_response(th[c].answer.body).v)

C16_Witness ==
    /\ th[1].pc = "returned" /\ th[2].pc = "returned"
    /\ th[1].op = "get_bug_log" /\ th[2].op = "get_bugs"
    /\ th[1].answer.body = B_logs /\ th[2].answer.body = B_list
    /\ th[1].out.v.items[1].items[3] = PyInt(1)
    /\ th[2].out = Returns(PyList(<<PyInt(1), PyInt(2)>>))

\* the response has no Fault element and no element two levels inside a
\* Body element
NoReturnValue(body) ==
    /\ body.xml
    /\ \A bd \in Range(body.root.children) :
            bd.tag = Tag(SOAPENV, N_Body) =>
                /\ \A x \in Range(bd.children) : x.tag # Tag(SOAPENV, N_Fault)
                /\ (bd.children = <<>> \/ bd.children[1].children = <<>>)

\* C20 as stated: a body without nested return value decodes to None, and
\* the operation that receives None does not raise and returns an empty
\* collection.
C20_AbsentResultHandled ==
    \A c \in Calls :
        (/\ Handed(th[c])
         /\ NoReturnValue(th[c].answer.body)
         /\ th[c].pc \in {"result", "loop", "returned", "raised"}) =>
            /\ th[c].ret = Returns(PyNone)
            /\ th[c].pc # "raised"
            /\ th[c].pc = "returned" =>
                    /\ th[c].bugs = <<>>
                    /\ th[c].out.v \in {PyNone, PyList(<<>>), PyDict(<<>>, <<>>)}

\* the positions of a _soap_client_call from its POST to its end
Sent == {"wait", "decode", "result", "returned", "raised"}

\* C22: a _soap_client_call uses, for each entry of the configuration, a
\* value the configuration held since the call began to read it, never an
\* older one; and once its request is sent, no change of the configuration
\* alters the request, the handlers or the value the call returns.
C22_ChangeAffectsLaterCalls ==
    /\ [](\A c \in Calls :
            th[c].pc = "send" =>
                /\ th[c].url \in { config.location : config \in th[c].seen }
                /\ th[c].use \in { ("proxy" \in config.keys) : config \in th[c].seen }
                /\ th[c].use =>
                    /\ th[c].http \in { config.proxy : config \in th[c].seen }
                    /\ th[c].https \in { config.proxy : config \in th[c].seen }
                /\ Cardinality(th[c].seen) = 1 =>
                    \E config \in th[c].seen :
                        /\ th[c].url = config.location
                        /\ th[c].use = ("proxy" \in config.keys)
                        /\ th[c].use => (th[c].http = config.proxy /\ th[c].https = config.proxy))
    /\ [](\A c \in Calls :
            th[c].pc = "result" =>
                th[c].ret = _decode_soap_response(th[c].answer.body))
    /\ [][\A c \in Calls :
            (th[c].pc \in Sent /\ kwargs' # kwargs) => th'[c] = th[c]]_vars
    /\ [][\A c \in Calls :
            (th[c].sent # <<>> /\ th'[c].sent # <<>>) =>
                /\ th'[c].sent[1] = th[c].sent[1]
                /\ th'[c].sent[1] = Request("POST", th'[c].url, th'[c].request)
                /\ th'[c].use = th[c].use
                /\ th'[c].http = th[c].http /\ th'[c].https = th[c].https]_vars

\* the call went to the location and through the proxy set before it
\* began; both were changed while it waited for its answer
C22_Witness ==
    /\ th[1].pc = "returned"
    /\ th[1].op = "get_bugs"
    /\ th[1].sent[1].url = "http://localhost:8080/soap.cgi"
    /\ th[1].use /\ th[1].http = "http://proxy-a:3128" /\ th[1].https = "http://proxy-a:3128"
    /\ kwargs.location = URL
    /\ kwargs.proxy = "http://proxy-b:3128"
    /\ th[1].out = Returns(PyList(<<PyInt(1), PyInt(2)>>))

\* a call as its caller sees it: all but the note of the configurations
\* that existed while it read
Visible(t) == [t EXCEPT !.seen = {}]

\* C23: no step of a Query API operation changes the configuration, so it
\* is the same before and after every call, returned or raised; a step
\* that changes it is one of set_soap_proxy, which sets the proxy entry
\* and nothing else, or of set_soap_location, which sets the location
\* entry and nothing else.
C23_OnlySettersWrite ==
    /\ [][(\E c \in Calls : Visible(th'[c]) # Visible(th[c])) => kwargs' = kwargs]_vars
    /\ [][kwargs' # kwargs =>
            \/ /\ kwargs'.location = kwargs.location
               /\ kwargs'.keys = kwargs.keys \cup {"proxy"}
               /\ kwargs'.proxy \in Proxies
            \/ /\ kwargs'.keys = kwargs.keys
               /\ kwargs'.proxy = kwargs.proxy
               /\ kwargs'.location \in Locations]_vars

\* a call has failed and the configuration is the one set before it
C23_Witness ==
    /\ th[1].pc = "raised"
    /\ th[1].out.exc = "RuntimeError"
    /\ th[1].sent[1].url = "http://localhost:8080/soap.cgi"
    /\ th[1].http = "http://proxy-b:3128"
    /\ kwargs = [keys |-> {"location", "proxy"}, proxy |-> "http://proxy-b:3128",
                 location |-> "http://localhost:8080/soap.cgi"]

\* C29: the configuration always holds a location, a proxy once set is
\* never taken away again, and no call ends in the KeyError of an entry
\* that is not there, whatever the order of setters and calls.
C29_EntriesStay ==
    /\ []("location" \in kwargs.keys)
    /\ [](kwargs.keys \subseteq {"location", "proxy"})
    /\ []["proxy" \in kwargs.keys => "proxy" \in kwargs'.keys]_vars
    /\ [](\A c \in Calls : th[c].out.exc # "KeyError" /\ th[c].ret.exc # "KeyError")

\* a proxy was set and set again, the location changed, and a call that
\* read all three entries has returned
C29_Witness ==
    /\ kwargs.keys = {"location", "proxy"}
    /\ kwargs.proxy = "http://proxy-b:3128"
    /\ th[1].pc = "returned"
    /\ th[1].op = "get_usertag"
    /\ th[1].use /\ th[1].http = "http://proxy-a:3128" /\ th[1].https = "http://proxy-b:3128"
    /\ th[1].sent[1].url = "http://localhost:8080/soap.cgi"

\* "anyType[n]"
AnyTypeText(n) == T_anyType \o <<"[">> \o IntToStr(n) \o <<"]">>

\* the element is an Array that declares n items and holds n children
\* named item
IsArrayOf(e, n) ==
    /\ e.typ = QName(SOAPENC, T_Array)
    /\ e.arrayType = QName(XSD, AnyTypeText(n))
    /\ Len(e.children) = n
    /\ \A j \in 1..n : e.children[j].tag = N_item

\* C27: the envelope of a request holds one Body with one element named
\* after the method, and under it one child named arg for each argument
\* handed over, in order: get_status sends the batch as one Array that
\* declares as many items as the batch has, get_bugs sends its criteria
\* as one Array of key, value, key, value, ..., and get_usertag sends the
\* email and then one arg for each tag.
C27_OneArgPerArgument ==
    \A c \in Calls : \A k \in 1..Len(th[c].sent) :
        th[c].sent[k].verb = "POST" =>
            LET root == th[c].sent[k].body
                msg  == root.children[1].children[1]
                p    == th[c].params
            IN  /\ root.tag = Tag(SOAPENV, N_Envelope)
                /\ Len(root.children) = 1
                /\ root.children[1].tag = Tag(SOAPENV, N_Body)
                /\ Len(root.children[1].children) = 1
                /\ msg.tag = Tag(NS, OpText[th[c].op])
                /\ \A j \in 1..Len(msg.children) : msg.children[j].tag = N_arg
                /\ Len(msg.children) = Len(th[c].args)
                /\ \A j \in 1..Len(msg.children) :
                        msg.children[j] = _encode_value(N_arg, th[c].args[j]).el
                /\ (th[c].op = "get_status" /\ th[c].pc \in AfterSend) =>
                        LET batch == SubSeq(th[c].numbers, th[c].i + 1,
                                            Min(th[c].i + BATCH_SIZE, Len(th[c].numbers)))
                        IN  /\ Len(msg.children) = 1
                            /\ IsArrayOf(msg.children[1], Len(batch))
                            /\ \A j \in 1..Len(batch) :
                                    msg.children[1].children[j].text = SomeText(IntToStr(batch[j].n))
                /\ th[c].op = "get_bugs" =>
                        /\ Len(msg.children) = 1
                        /\ IsArrayOf(msg.children[1], 2 * Len(p[1].keys))
                        /\ \A j \in 1..Len(p[1].keys) :
                                /\ msg.children[1].children[2 * j - 1].text = SomeText(p[1].keys[j].s)
                                /\ msg.children[1].children[2 * j].text = SomeText(p[1].items[j].s)
                /\ th[c].op = "get_usertag" =>
                        LET tags == IF p[2].k = "none" THEN <<>> ELSE p[2].items IN
                        /\ Len(msg.children) = 1 + Len(tags)
                        /\ msg.children[1].text = SomeText(p[1].s)
                        /\ \A j \in 1..Len(tags) :
                                /\ msg.children[1 + j].typ = QName(XSD, T_string)
                                /\ msg.children[1 + j].text = SomeText(tags[j].s)

\* the request of a get_usertag with two tags is on its way
C27_Witness ==
    /\ th[1].pc = "wait"
    /\ th[1].op = "get_usertag"
    /\ Len(th[1].params[2].items) = 2
    /\ Len(th[1].sent) = 1
    /\ Len(th[1].sent[1].body.children[1].children[1].children) = 3

----------------------------------------------------------------------------
(* The specifications: each follows one part of the program and leaves the
   variables of the others at their initial values *)

Init == StatusInit /\ OrderInit /\ CodecInit /\ ParseInit /\ CallInit /\ DecodeInit

StatusSpec == Init /\ [][StatusNext]_vars
OrderSpec  == Init /\ [][OrderNext]_vars
CodecSpec  == Init /\ [][CodecNext]_vars
ParseSpec  == Init /\ [][ParseNext]_vars
CallSpec   == Init /\ [][CallNext]_vars
ThreadsSpec == Init /\ [][ThreadsNext]_vars
DecodeSpec == Init /\ [][DecodeNext]_vars

Next ==
    \/ StatusNext \/ OrderNext \/ CodecNext \/ ParseNext \/ CallNext \/ ThreadsNext
    \/ DecodeNext

Spec == Init /\ [][Next]_vars

====
